---- MODULE Spec2Model ----
(***************************************************************************)
(* Relayer transaction pipeline of Monad Pay: the shared nonce counter     *)
(* (services/nonce), the transfer executor (services/relayer), the ledger  *)
(* recorder and confirmation poller (services/payment) and the submit and  *)
(* confirm queue workers (queue/workers, queue/producers).                 *)
(***************************************************************************)
EXTENDS Integers, Sequences, FiniteSets, TLC

\* ------------------------------------------------------------------ bounds
\* Concurrent direct callers of the nonce API (SpecNonce).
NCallers == 3
\* Largest value the counter holds when the callers start (SpecNonce).
MaxStart == 2
\* Transfer requests of one sender, recipient and amount issued inside one
\* idempotency time bucket: they carry the same idempotencyKey and each its
\* own refId (router.ts confirmSendWithPin).
NReq == 2
\* Withdrawals confirmed by PIN (history.ts executeWithdrawWithPin).
NWd == 1
\* Concurrent callers of getGasPrice (SpecGas).
NGasCallers == 2
\* How many times the clock advances (SpecGas).
MaxGasTicks == 3
\* Largest gas estimate of the dense range the node returns (SpecGas).
MaxGas == 6
\* Chat messages of one user handled at the same time (SpecPin, SpecCmd).
NHandlers == 2
\* Chat messages the user sends in all (SpecPin, SpecCmd).
NMsgs == 4
\* How many times the clock advances by one session lifetime (SpecPin).
MaxPinTicks == 3
\* How many times the clock advances by one session lifetime (SpecCmd).
MaxCmdTicks == 2
\* Width of the contract's unsigned integers, in bits (SpecPool).
UintBits == 3
\* The wei that exist: what the accounts hold outside the pool and inside
\* it (SpecPool).
Supply == 4
\* Largest msg.value and amount of a call to the contract (SpecPool).
MaxValue == 2
\* Longest batch handed to batchTransfer (SpecPool).
MaxBatch == 2
\* Last idempotency time bucket the clock reaches (SpecKey).
MaxKeyBuckets == 2
\* Worker processes that die while they run a submit job (SpecCrash).
MaxCrashes == 1

\* ------------------------------------------------------ program constants
\* txSubmitQueue defaultJobOptions.attempts
SubmitAttempts == 3
\* createTxSubmitWorker concurrency
SubmitConcurrency == 5
\* The submit Worker is built without maxStalledCount: a job is recovered
\* from a stall at most once.
MaxStalledCount == 1
\* txConfirmQueue defaultJobOptions.attempts
ConfirmAttempts == 20
\* the confirm worker's "failed" listener: job.attemptsMade >= 20
ExpireThreshold == 20
\* createTxConfirmWorker concurrency
ConfirmConcurrency == 10
\* shared/constants.ts GAS_PRICE_CACHE_MS
GAS_PRICE_CACHE_MS == 3000
\* shared/constants.ts
RATE_LIMIT_DAILY_VOLUME_MON == 50
RATE_LIMIT_PIN_ATTEMPTS == 3
RATE_LIMIT_PIN_LOCKOUT_MS == 15 * 60 * 1000
SESSION_TTL_MS == 5 * 60 * 1000
\* buildIdempotencyKey's default windowMs
IdempotencyWindowMs == 60000

VARIABLES
    nonce,      \* redis key "relayer:nonce": the next nonce to hand out
    callers,    \* SpecNonce: each direct caller's position and held nonce
    start,      \* SpecNonce ghost: the counter's value when the callers started
    reclaimLog, \* ghost: the last reclaimNonce call, <<n, before, after, reply>>
    boot,       \* initNonce at process start: position, count read, value read
    chain,      \* transactions the chain gateway accepted, in broadcast order
    ledger,     \* prisma.transaction rows, by the refId of their creator
    reqd,       \* transfer requests already issued by the command layer
    sjob,       \* tx-submit queue: the job of each request
    ex,         \* executions of the submit worker's processor
    wd,         \* executions of executeWithdrawWithPin after the PIN check
    cjobs,      \* tx-confirm queue: the jobs enqueueTxConfirm added
    notices,    \* notify queue: <<refId, kind, party>> of the messages enqueued
    begun,      \* ghost: what the begin part of processTransfer resolved to
    now,        \* Date.now(), in ms since the model's start
    gasCache,   \* redis keys "gas:price" and "gas:updated"
    gcall,      \* callers of getGasPrice on their way to a gas limit
    session,    \* redis key "session:<user>" of one user
    pinAttempts, \* redis key "pin_attempts:<user>": count and expiry
    pinLock,    \* redis key "pin_lockout:<user>": its expiry, Nil when absent
    hd,         \* handlers of the user's chat messages
    acts,       \* ghost: submit jobs enqueued and withdrawals sent, in order
    pinGhost,   \* ghost: wrong attempts in a row, as the user counts them
    msgs,       \* ghost: how many messages the user has sent
    pool,       \* PaymentPool storage: _balances, totalDeposited, _locked
    tx,         \* the contract call that is under way, with the storage it
                \* would revert to
    lastCall,   \* ghost: the last call that returned, what it was given and
                \* what it answered
    kcall       \* SpecKey: two calls of buildIdempotencyKey and their keys

nonceVars == <<callers, start, reclaimLog, boot>>
pipeVars == <<chain, ledger, reqd, sjob, ex, wd, cjobs, notices, begun>>
gasVars == <<gasCache, gcall>>
cmdVars == <<session, pinAttempts, pinLock, hd, acts, pinGhost, msgs>>
poolVars == <<pool, tx, lastCall>>
keyVars == <<kcall>>
sideVars == <<now, gasVars, cmdVars, poolVars, keyVars>>
gasFrame == <<nonce, nonceVars, pipeVars, cmdVars, poolVars, keyVars>>
cmdFrame == <<nonce, nonceVars, pipeVars, gasVars, poolVars, keyVars>>
poolFrame == <<nonce, nonceVars, pipeVars, now, gasVars, cmdVars, keyVars>>
keyFrame == <<nonce, nonceVars, pipeVars, gasVars, cmdVars, poolVars>>
vars == <<nonce, callers, start, reclaimLog, boot,
          chain, ledger, reqd, sjob, ex, wd, cjobs, notices, begun,
          now, gasCache, gcall,
          session, pinAttempts, pinLock, hd, acts, pinGhost, msgs,
          pool, tx, lastCall, kcall>>

\* "no value": a null txHash, an exec that holds no nonce
Nil == 0 - 1

\* ------------------------------------------------- gas oracle: state
GasCallers == 1..NGasCallers
IdleGas == [pc |-> "idle", cached |-> Nil, fresh |-> Nil,
            ret |-> Nil, retAt |-> Nil, est |-> Nil, gas |-> Nil]

GasInit ==
    /\ gasCache = [price |-> Nil, updated |-> Nil]
    /\ gcall = [c \in GasCallers |-> IdleGas]

\* ------------------------------------------------ command layer: state
Handlers == 1..NHandlers
\* Amounts, in MON, the user asks to send or withdraw, and what
\* getPoolBalance answers for the user's address.
Amounts == {20, 35}
Balances == {10, 60}

NoCmd == [type |-> "none", amount |-> 0]
NoMsg == [kind |-> "none", amount |-> 0, pin |-> "none"]
\* getSession's answer when the key is absent.
IdleSession == [step |-> "idle", pendingCommand |-> NoCmd, expiresAt |-> 0]
NoAttempts == [n |-> 0, exp |-> Nil]
IdleHd == [pc |-> "idle", kind |-> "none", msg |-> NoMsg, cmd |-> NoCmd,
           res |-> "none", attempts |-> 0, lockedAtStart |-> FALSE]

NoStreak == [streak0 |-> 0, lockDue0 |-> Nil,
             streak |-> 0, lockDue |-> Nil, lastWrong |-> Nil]

\* No session, no handler at work.
CmdRest ==
    /\ session = IdleSession
    /\ hd = [h \in Handlers |-> IdleHd]
    /\ acts = <<>>
    /\ msgs = 0

\* What verifyPin has left in redis at time 0: nothing, or the lock of
\* three wrong attempts.
PinStarts ==
    {[attempts |-> NoAttempts, lock |-> Nil, ghost |-> NoStreak],
     [attempts |-> NoAttempts, lock |-> RATE_LIMIT_PIN_LOCKOUT_MS,
      ghost |-> [NoStreak EXCEPT !.lockDue0 = RATE_LIMIT_PIN_LOCKOUT_MS,
                                 !.lockDue = RATE_LIMIT_PIN_LOCKOUT_MS,
                                 !.lastWrong = 0]]}

CmdInit ==
    /\ CmdRest
    /\ pinAttempts = NoAttempts
    /\ pinLock = Nil
    /\ pinGhost = NoStreak

\* ------------------------------------------------- PaymentPool: state
\* address(0), and the accounts that call the contract or hold a balance.
Zero == "0x0"
\* The users with a pool balance, the accounts that call the contract and
\* the addresses a call can name.
Users == {"alice", "bob"}
Accounts == {"relayer"} \cup Users
Addrs == {Zero} \cup Users
\* The immutable relayer, set by the constructor.
relayer == "relayer"
\* type(uint256).max at the model's width.
MaxUint == 2 ^ UintBits - 1
Values == 0..MaxValue

\* Storage after construction.
NewPool == [balances |-> [a \in Addrs |-> 0], totalDeposited |-> 0, locked |-> FALSE]
NoTx == [kind |-> "none", saved |-> NewPool, from |-> Zero, to |-> Zero,
         amount |-> 0, n |-> 0]
NoCall == [fn |-> "none", sender |-> Zero, amount |-> 0, short |-> FALSE,
           zero |-> FALSE, err |-> "none", seq |-> 0]

PoolInit ==
    /\ pool = NewPool
    /\ tx = NoTx
    /\ lastCall = NoCall

\* What the parts of the program outside a specification start as.
\* ------------------------------------------------ idempotency key: state
KeyCalls == 1..2
\* User ids and amounts in wei, as the strings the key is built from.
UserIds == {"u1", "u12"}
KeyAmounts == {"2", "12"}
NoKey == ""
KeyInputs == [sender : UserIds, recipient : UserIds, amount : KeyAmounts,
              at : {Nil}, key : {NoKey}]
KeyIdle == [sender |-> "u1", recipient |-> "u12", amount |-> "2",
            at |-> Nil, key |-> NoKey]
KeyInit == kcall = [i \in KeyCalls |-> KeyIdle]

SideInit ==
    /\ now = 0
    /\ GasInit
    /\ CmdInit
    /\ PoolInit
    /\ KeyInit

\* ------------------------------------------------------- nonce sequencer
\* The Lua script of acquireNonce runs atomically in redis: GET, INCR,
\* return the value read.
acquireNonce_returnsIncr(c) ==
    [ret |-> c + 1, counter |-> c + 1]

acquireNonce(c) ==
    [ret |-> c, counter |-> c + 1]

\* The Lua script of reclaimNonce: DECR only when the counter is n + 1.
reclaimNonce_always(c, n) ==
    [counter |-> c - 1, reply |-> 1]

reclaimNonce_never(c, n) ==
    [counter |-> c, reply |-> 0]

reclaimNonce(c, n) ==
    IF c = n + 1
    THEN [counter |-> c - 1, reply |-> 1]
    ELSE [counter |-> c, reply |-> 0]

NoReclaim == <<Nil, Nil, Nil, Nil>>

Max(a, b) == IF a >= b THEN a ELSE b

\* initNonce, lines 28-30: the stored string, when there is one, is compared
\* with the chain's count; redis.get returns null for a missing key.
initNonce_chainOnly(chainNonce, stored) ==
    chainNonce

initNonce(chainNonce, stored) ==
    IF stored # Nil THEN Max(chainNonce, stored) ELSE chainNonce

\* initNonce has returned: the workers are started after it.
BootDone == [pc |-> "done", chainNonce |-> Nil, stored |-> Nil]

\* ------------------------------------------------------ pipeline: state
Reqs == 1..NReq
Wds == 1..NWd
\* An execution of the submit processor: the delivery of request r's job
\* made after the job had stalled s times.
Execs == Reqs \X (0..MaxStalledCount)

T(r) == <<"t", r>>
W(w) == <<"w", w>>
RecIds == {T(r) : r \in Reqs} \cup {W(w) : w \in Wds}

NoRec == [status |-> "none", txHash |-> Nil, err |-> "none"]
IdleEx == [pc |-> "idle", n |-> Nil, cause |-> "none", hash |-> Nil, other |-> FALSE]
NoJob == [st |-> "none", attemptsMade |-> 0, stalls |-> 0]

PipeRest ==
    /\ ledger = [i \in RecIds |-> NoRec]
    /\ reqd = [r \in Reqs |-> FALSE]
    /\ sjob = [r \in Reqs |-> NoJob]
    /\ ex = [e \in Execs |-> IdleEx]
    /\ wd = [w \in Wds |-> IdleEx]
    /\ cjobs = <<>>
    /\ notices = {}
    /\ begun = [r \in Reqs |-> <<"none", 0>>]

PipeInit ==
    /\ chain = <<>>
    /\ PipeRest

\* ---------------------------------------------- SpecNonce: the API alone
Callers == 1..NCallers

InitNonce ==
    /\ nonce \in 0..MaxStart
    /\ start = nonce
    /\ callers = [c \in Callers |-> [pc |-> "idle", n |-> Nil]]
    /\ reclaimLog = NoReclaim
    /\ boot = BootDone
    /\ PipeInit
    /\ SideInit

CallAcquire(c) ==
    /\ callers[c].pc = "idle"
    /\ LET r == acquireNonce(nonce) IN
        /\ nonce' = r.counter
        /\ callers' = [callers EXCEPT ![c] = [pc |-> "holding", n |-> r.ret]]
    /\ UNCHANGED <<start, reclaimLog, boot, pipeVars, sideVars>>

CallReclaim(c) ==
    /\ callers[c].pc = "holding"
    /\ LET r == reclaimNonce(nonce, callers[c].n) IN
        /\ nonce' = r.counter
        /\ reclaimLog' = <<callers[c].n, nonce, r.counter, r.reply>>
    /\ callers' = [callers EXCEPT ![c].pc = "released"]
    /\ UNCHANGED <<start, boot, pipeVars, sideVars>>

NextNonce ==
    \/ \E c \in Callers : CallAcquire(c)
    \/ \E c \in Callers : CallReclaim(c)

SpecNonce == InitNonce /\ [][NextNonce]_vars

\* ------------------------------------------------- pipeline: operations
TransferIds == {T(r) : r \in Reqs}

\* prisma.transaction.findUnique({ where: { idempotencyKey } }): the rows
\* that carry the requests' idempotency key.
findByKey_none(L) ==
    {}

findByKey(L) ==
    {i \in TransferIds : L[i].status # "none"}

\* prisma.transaction.create refuses a second row with the same
\* idempotencyKey (or refId): both are unique fields of the Transaction model.
uniqueViolation_absent(L, r) ==
    FALSE

uniqueViolation(L, r) ==
    \E i \in TransferIds : L[i].status # "none"

\* txSubmitQueue.add("transfer", job, { jobId: job.idempotencyKey }): a job
\* id that the queue already holds (waiting, active, completed or failed)
\* is not added again.
enqueueTxSubmit_noDedup(Q, r) ==
    [Q EXCEPT ![r] = [NoJob EXCEPT !.st = "wait"]]

enqueueTxSubmit(Q, r) ==
    IF \E q \in Reqs : Q[q].st # "none"
    THEN Q
    ELSE [Q EXCEPT ![r] = [NoJob EXCEPT !.st = "wait"]]

\* txConfirmQueue.add("confirm", job): no job id, every call adds a job.
enqueueTxConfirm(C, tid, h) ==
    Append(C, [tid |-> tid, hash |-> h, attemptsMade |-> 0, st |-> "wait",
               expiring |-> FALSE, status |-> "none"])

\* What the chain gateway does with one submission: "ok" accepts the
\* transaction and returns its hash, "estimate" is estimateGas throwing,
\* "send" is sendTransaction throwing before the node accepted it,
\* "ambiguous" is sendTransaction throwing after the node accepted it, "rpc"
\* is a call to the node (getGasPrice, estimateGas) timing out.
SendOutcomes == {"ok", "estimate", "send", "ambiguous", "rpc"}
Broadcasts(o) == o \in {"ok", "ambiguous"}

\* The executor after the gateway answered: the hash is returned, or the
\* catch block runs (it reclaims whatever was thrown, then rethrows).
afterSend(p, o, h) ==
    IF o = "ok"
    THEN [p EXCEPT !.pc = "sent", !.hash = h, !.n = Nil, !.other = FALSE]
    ELSE [p EXCEPT !.pc = "reclaim", !.cause = o]

broadcast(c, o, n, op) ==
    IF Broadcasts(o)
    THEN Append(c, [nonce |-> n, op |-> op, receipt |-> "absent"])
    ELSE c

\* processTransfer, lines 64-68: the update that stores the hash.
attachHash_skip(rec, h) ==
    rec

attachHash(rec, h) ==
    [rec EXCEPT !.txHash = h]

\* processTransfer, lines 79-85: the update of the catch block.
markFailed_keepsPending(rec, cause) ==
    rec

markFailed(rec, cause) ==
    [rec EXCEPT !.status = "failed", !.err = cause]

\* ghost: every other submission that holds a nonce saw one more allocation
markAll(f) ==
    [p \in DOMAIN f |-> IF f[p].n # Nil THEN [f[p] EXCEPT !.other = TRUE] ELSE f[p]]
markOthers(f, me) ==
    [p \in DOMAIN f |-> IF p # me THEN markAll(f)[p] ELSE f[p]]

\* The execution that holds the job's lock: the latest delivery.
Owner(e) ==
    /\ sjob[e[1]].st = "active"
    /\ sjob[e[1]].stalls = e[2]

\* The processor returned: the job completes (a delivery that lost the lock
\* to a stall recovery cannot move the job).
finishOk(Q, e) ==
    IF Owner(e) THEN [Q EXCEPT ![e[1]].st = "completed"] ELSE Q

\* The processor threw: BullMQ counts the attempt and retries with backoff
\* until attempts are used up.
finishThrow(Q, e) ==
    IF Owner(e)
    THEN [Q EXCEPT ![e[1]] =
            [@ EXCEPT !.attemptsMade = @ + 1,
                      !.st = IF Q[e[1]].attemptsMade + 1 >= SubmitAttempts
                             THEN "failed" ELSE "wait"]]
    ELSE Q

Running == {e \in Execs : ex[e].pc # "idle"}

\* confirmSendWithPin: builds the job and calls enqueueTxSubmit. Requests
\* are numbered in the order they are issued (generateRefId gives each its
\* own refId).
Request(r) ==
    /\ ~reqd[r]
    /\ \A q \in Reqs : q < r => reqd[q]
    /\ reqd' = [reqd EXCEPT ![r] = TRUE]
    /\ sjob' = enqueueTxSubmit(sjob, r)
    /\ UNCHANGED <<nonce, nonceVars, chain, ledger, ex, wd, cjobs, notices, begun, sideVars>>

\* processTransfer called for a job whatever the queue holds (SpecDirect).
DirectSubmit(r) ==
    /\ ~reqd[r]
    /\ \A q \in Reqs : q < r => reqd[q]
    /\ reqd' = [reqd EXCEPT ![r] = TRUE]
    /\ sjob' = [sjob EXCEPT ![r] = [NoJob EXCEPT !.st = "wait"]]
    /\ UNCHANGED <<nonce, nonceVars, chain, ledger, ex, wd, cjobs, notices, begun, sideVars>>

\* The submit worker takes a waiting job.
StartJob(r) ==
    /\ sjob[r].st = "wait"
    /\ Cardinality(Running) < SubmitConcurrency
    /\ ex[<<r, sjob[r].stalls>>].pc = "idle"
    /\ sjob' = [sjob EXCEPT ![r].st = "active"]
    /\ ex' = [ex EXCEPT ![<<r, sjob[r].stalls>>] = [IdleEx EXCEPT !.pc = "find"]]
    /\ UNCHANGED <<nonce, nonceVars, chain, ledger, reqd, wd, cjobs, notices, begun, sideVars>>

\* The job's lock expired while its processor was still running (or after
\* its process died): the job goes back to waiting.
Stall(r) ==
    /\ sjob[r].st = "active"
    /\ sjob[r].stalls < MaxStalledCount
    /\ sjob' = [sjob EXCEPT ![r].st = "wait", ![r].stalls = @ + 1]
    /\ UNCHANGED <<nonce, nonceVars, chain, ledger, reqd, ex, wd, cjobs, notices, begun, sideVars>>

\* processTransfer, lines 19-32: the idempotency check. A cached result
\* without txHash ends the processor at once.
Find(e) ==
    /\ ex[e].pc = "find"
    /\ LET found == findByKey(ledger) IN
        IF found = {}
        THEN /\ ex' = [ex EXCEPT ![e].pc = "create"]
             /\ UNCHANGED <<sjob, begun>>
        ELSE LET i == CHOOSE i \in found : TRUE IN
             /\ begun' = [begun EXCEPT ![e[1]] = i]
             /\ IF ledger[i].txHash # Nil
                THEN /\ ex' = [ex EXCEPT ![e].pc = "enqConfirm",
                                         ![e].hash = ledger[i].txHash]
                     /\ UNCHANGED sjob
                ELSE /\ ex' = [ex EXCEPT ![e] = IdleEx]
                     /\ sjob' = finishOk(sjob, e)
    /\ UNCHANGED <<nonce, nonceVars, chain, ledger, reqd, wd, cjobs, notices, sideVars>>

\* processTransfer, lines 41-53: the pending row is created.
Create(e) ==
    /\ ex[e].pc = "create"
    /\ IF uniqueViolation(ledger, e[1])
       THEN /\ ex' = [ex EXCEPT ![e].pc = "catch", ![e].cause = "unique"]
            /\ begun' = [begun EXCEPT ![e[1]] = <<"threw", 0>>]
            /\ UNCHANGED ledger
       ELSE /\ ledger' = [ledger EXCEPT ![T(e[1])] = [NoRec EXCEPT !.status = "pending"]]
            /\ begun' = [begun EXCEPT ![e[1]] = T(e[1])]
            /\ ex' = [ex EXCEPT ![e].pc = "acquire"]
    /\ UNCHANGED <<nonce, nonceVars, chain, reqd, sjob, wd, cjobs, notices, sideVars>>

\* executePoolTransfer, line 73.
Acquire(e) ==
    /\ ex[e].pc = "acquire"
    /\ LET a == acquireNonce(nonce) IN
        /\ nonce' = a.counter
        /\ ex' = [markOthers(ex, e) EXCEPT ![e].pc = "send", ![e].n = a.ret]
    /\ wd' = markAll(wd)
    /\ UNCHANGED <<nonceVars, chain, ledger, reqd, sjob, cjobs, notices, begun, sideVars>>

\* executePoolTransfer, lines 75-107: gas price, estimate, sendTransaction.
Send(e, o) ==
    /\ ex[e].pc = "send"
    /\ chain' = broadcast(chain, o, ex[e].n, T(e[1]))
    /\ ex' = [ex EXCEPT ![e] = afterSend(@, o, Len(chain) + 1)]
    /\ UNCHANGED <<nonce, nonceVars, ledger, reqd, sjob, wd, cjobs, notices, begun, sideVars>>

\* executePoolTransfer, lines 108-113: the catch block.
Reclaim(e) ==
    /\ ex[e].pc = "reclaim"
    /\ nonce' = reclaimNonce(nonce, ex[e].n).counter
    /\ ex' = [ex EXCEPT ![e].pc = "markFailed"]
    /\ UNCHANGED <<nonceVars, chain, ledger, reqd, sjob, wd, cjobs, notices, begun, sideVars>>

\* processTransfer, lines 64-76: the hash is stored and the result returned.
Attach(e) ==
    /\ ex[e].pc = "sent"
    /\ ledger' = [ledger EXCEPT ![T(e[1])] = attachHash(@, ex[e].hash)]
    /\ ex' = [ex EXCEPT ![e].pc = "enqConfirm"]
    /\ UNCHANGED <<nonce, nonceVars, chain, reqd, sjob, wd, cjobs, notices, begun, sideVars>>

\* processTransfer, lines 77-88: whatever executePoolTransfer threw marks
\* the row failed and is thrown on.
MarkFailed(e) ==
    /\ ex[e].pc = "markFailed"
    /\ ledger' = [ledger EXCEPT ![T(e[1])] = markFailed(@, ex[e].cause)]
    /\ ex' = [ex EXCEPT ![e].pc = "catch", ![e].n = Nil, ![e].other = FALSE]
    /\ UNCHANGED <<nonce, nonceVars, chain, reqd, sjob, wd, cjobs, notices, begun, sideVars>>

\* submit processor, lines 30-44: the row is looked up by the job's refId
\* and the confirm job enqueued with the result's hash.
EnqConfirm(e) ==
    /\ ex[e].pc = "enqConfirm"
    /\ cjobs' = IF ledger[T(e[1])].status # "none"
                THEN enqueueTxConfirm(cjobs, T(e[1]), ex[e].hash)
                ELSE cjobs
    /\ ex' = [ex EXCEPT ![e].pc = "notify"]
    /\ UNCHANGED <<nonce, nonceVars, chain, ledger, reqd, sjob, wd, notices, begun, sideVars>>

\* submit processor, lines 46-69: the "submitted" notification; the
\* processor returns.
Notify(e) ==
    /\ ex[e].pc = "notify"
    /\ notices' = notices \cup {<<e[1], "submitted", "sender">>}
    /\ sjob' = finishOk(sjob, e)
    /\ ex' = [ex EXCEPT ![e] = IdleEx]
    /\ UNCHANGED <<nonce, nonceVars, chain, ledger, reqd, wd, cjobs, begun, sideVars>>

\* submit processor, lines 70-88: the "Payment failed" notification; the
\* error is thrown to BullMQ.
Catch(e) ==
    /\ ex[e].pc = "catch"
    /\ notices' = notices \cup {<<e[1], "failed", "sender">>}
    /\ sjob' = finishThrow(sjob, e)
    /\ ex' = [ex EXCEPT ![e] = IdleEx]
    /\ UNCHANGED <<nonce, nonceVars, chain, ledger, reqd, wd, cjobs, begun, sideVars>>

\* executeWithdrawWithPin, lines 171-178, and executePoolWithdraw, line 127.
\* Withdrawals are numbered in the order they pass the PIN check.
WdAcquire(w) ==
    /\ wd[w].pc = "idle"
    /\ \A v \in DOMAIN wd : v < w => wd[v].pc # "idle"
    /\ LET a == acquireNonce(nonce) IN
        /\ nonce' = a.counter
        /\ wd' = [markOthers(wd, w) EXCEPT ![w].pc = "send", ![w].n = a.ret]
    /\ ex' = markAll(ex)
    /\ UNCHANGED <<nonceVars, chain, ledger, reqd, sjob, cjobs, notices, begun, sideVars>>

\* executePoolWithdraw, lines 129-159.
WdSend(w, o) ==
    /\ wd[w].pc = "send"
    /\ chain' = broadcast(chain, o, wd[w].n, W(w))
    /\ wd' = [wd EXCEPT ![w] = afterSend(@, o, Len(chain) + 1)]
    /\ UNCHANGED <<nonce, nonceVars, ledger, reqd, sjob, ex, cjobs, notices, begun, sideVars>>

\* executePoolWithdraw, lines 160-164, and executeWithdrawWithPin, lines
\* 199-202: the error ends as a chat reply.
WdReclaim(w) ==
    /\ wd[w].pc = "reclaim"
    /\ nonce' = reclaimNonce(nonce, wd[w].n).counter
    /\ wd' = [wd EXCEPT ![w].pc = "failed", ![w].n = Nil, ![w].other = FALSE]
    /\ UNCHANGED <<nonceVars, chain, ledger, reqd, sjob, ex, cjobs, notices, begun, sideVars>>

\* executeWithdrawWithPin, lines 180-198: the row is created with the hash.
WdRecord(w) ==
    /\ wd[w].pc = "sent"
    /\ ledger' = [ledger EXCEPT ![W(w)] =
                    [NoRec EXCEPT !.status = "pending", !.txHash = wd[w].hash]]
    /\ wd' = [wd EXCEPT ![w].pc = "done"]
    /\ UNCHANGED <<nonce, nonceVars, chain, reqd, sjob, ex, cjobs, notices, begun, sideVars>>

SubmitStage ==
    \/ \E r \in Reqs : StartJob(r)
    \/ \E r \in Reqs : Stall(r)
    \/ \E e \in Execs : Find(e)
    \/ \E e \in Execs : Create(e)
    \/ \E e \in Execs : Acquire(e)
    \/ \E e \in Execs, o \in SendOutcomes : Send(e, o)
    \/ \E e \in Execs : Reclaim(e)
    \/ \E e \in Execs : Attach(e)
    \/ \E e \in Execs : MarkFailed(e)
    \/ \E e \in Execs : EnqConfirm(e)
    \/ \E e \in Execs : Notify(e)
    \/ \E e \in Execs : Catch(e)

Withdrawals ==
    \/ \E w \in Wds : WdAcquire(w)
    \/ \E w \in Wds, o \in SendOutcomes : WdSend(w, o)
    \/ \E w \in Wds : WdReclaim(w)
    \/ \E w \in Wds : WdRecord(w)

\* The submit side of the pipeline: requests, the submit worker, withdrawals.
Init ==
    /\ nonce = 0
    /\ callers = [c \in Callers |-> [pc |-> "idle", n |-> Nil]]
    /\ start = 0
    /\ reclaimLog = NoReclaim
    /\ boot = BootDone
    /\ PipeInit
    /\ SideInit

Next ==
    \/ \E r \in Reqs : Request(r)
    \/ SubmitStage
    \/ Withdrawals

Spec == Init /\ [][Next]_vars

\* processTransfer driven directly, without the queue's admission.
NextDirect ==
    \/ \E r \in Reqs : DirectSubmit(r)
    \/ SubmitStage

SpecDirect == Init /\ [][NextDirect]_vars

\* ------------------------------------------------ pipeline: confirm stage
\* The "failed" listener of the confirm worker marks the row expired once
\* the job has failed this many times.
exhausted_any(a) ==
    a >= 1

exhausted(a) ==
    a >= ExpireThreshold

\* confirmTransaction, lines 108-131: the row after a receipt was read.
finalize_reverted(rec, rc) ==
    [rec EXCEPT !.status = "failed", !.err = "reverted"]

finalize(rec, rc) ==
    IF rc = "success"
    THEN [rec EXCEPT !.status = "confirmed"]
    ELSE [rec EXCEPT !.status = "failed", !.err = "reverted"]

\* confirmTransaction: what it returns and what it leaves in the row.
\* getTransactionReceipt throws when there is no receipt (and on any other
\* error): the catch returns "pending" and the row is not touched.
confirmTransaction_absentFails(rec, rc) ==
    [report |-> IF rc = "success" THEN "confirmed" ELSE "failed",
     rec |-> finalize(rec, rc)]

confirmTransaction(rec, rc) ==
    IF rc = "absent"
    THEN [report |-> "pending", rec |-> rec]
    ELSE [report |-> IF rc = "success" THEN "confirmed" ELSE "failed",
          rec |-> finalize(rec, rc)]

\* the "failed" listener's update, lines 191-196
markExpired(rec) ==
    [rec EXCEPT !.status = "expired", !.err = "timeout"]

Mined == {i \in DOMAIN chain : chain[i].receipt # "absent"}

\* The chain includes a broadcast transaction: the relayer account's
\* transactions are included in nonce order, one per nonce.
Mine(i, rc) ==
    /\ chain[i].receipt = "absent"
    /\ chain[i].nonce = Cardinality(Mined)
    /\ chain' = [chain EXCEPT ![i].receipt = rc]
    /\ UNCHANGED <<nonce, nonceVars, ledger, reqd, sjob, ex, wd, cjobs, notices, begun, sideVars>>

\* confirm processor, lines 129-138, with confirmTransaction: one attempt.
\* No receipt: "pending" is returned, the processor throws, BullMQ counts
\* the failed attempt and the "failed" listener runs. A receipt: the row is
\* updated and the processor goes on to notify.
ConfirmCheck(j) ==
    /\ cjobs[j].st = "wait"
    /\ Cardinality({k \in DOMAIN cjobs : cjobs[k].st = "notify"}) < ConfirmConcurrency
    /\ LET res == confirmTransaction(ledger[cjobs[j].tid], chain[cjobs[j].hash].receipt)
           a == cjobs[j].attemptsMade + 1 IN
        /\ ledger' = [ledger EXCEPT ![cjobs[j].tid] = res.rec]
        /\ IF res.report = "pending"
           THEN cjobs' = [cjobs EXCEPT ![j].attemptsMade = a,
                            ![j].status = "pending",
                            ![j].st = IF a >= ConfirmAttempts THEN "failed" ELSE "wait",
                            ![j].expiring = @ \/ exhausted(a)]
           ELSE cjobs' = [cjobs EXCEPT ![j].st = "notify", ![j].status = res.report]
    /\ UNCHANGED <<nonce, nonceVars, chain, reqd, sjob, ex, wd, notices, begun, sideVars>>

\* confirm processor, lines 140-179: the outcome is notified to the sender
\* (the recipient's enqueueNotify, lines 163-170, is commented out) and the
\* job completes.
ConfirmNotify(j) ==
    /\ cjobs[j].st = "notify"
    /\ notices' = notices \cup {<<cjobs[j].tid[2], cjobs[j].status, "sender">>}
    /\ cjobs' = [cjobs EXCEPT ![j].st = "completed"]
    /\ UNCHANGED <<nonce, nonceVars, chain, ledger, reqd, sjob, ex, wd, begun, sideVars>>

\* "failed" listener, lines 187-198: its update is not awaited.
MarkExpired(j) ==
    /\ cjobs[j].expiring
    /\ ledger' = [ledger EXCEPT ![cjobs[j].tid] = markExpired(@)]
    /\ cjobs' = [cjobs EXCEPT ![j].expiring = FALSE]
    /\ UNCHANGED <<nonce, nonceVars, chain, reqd, sjob, ex, wd, notices, begun, sideVars>>

ConfirmStage ==
    \/ \E j \in DOMAIN cjobs : ConfirmCheck(j)
    \/ \E j \in DOMAIN cjobs : ConfirmNotify(j)
    \/ \E j \in DOMAIN cjobs : MarkExpired(j)

\* The whole transfer pipeline: requests, submit worker, confirm worker and
\* the chain including what was broadcast.
NextConfirm ==
    \/ \E r \in Reqs : Request(r)
    \/ SubmitStage
    \/ ConfirmStage
    \/ \E i \in DOMAIN chain, rc \in {"success", "reverted"} : Mine(i, rc)

SpecConfirm == Init /\ [][NextConfirm]_vars

\* processTransfer, lines 65-68 inside the try: the update that stores the
\* hash throws (the database is unreachable); the catch block runs.
AttachFails(e) ==
    /\ ex[e].pc = "sent"
    /\ ex' = [ex EXCEPT ![e].pc = "markFailed", ![e].cause = "db"]
    /\ UNCHANGED <<nonce, nonceVars, chain, ledger, reqd, sjob, wd, cjobs, notices, begun, sideVars>>

\* submit processor, lines 39-43 inside the try: enqueueTxConfirm throws
\* (redis is unreachable); the processor's catch runs.
EnqConfirmFails(e) ==
    /\ ex[e].pc = "enqConfirm"
    /\ ex' = [ex EXCEPT ![e].pc = "catch", ![e].cause = "queue"]
    /\ UNCHANGED <<nonce, nonceVars, chain, ledger, reqd, sjob, wd, cjobs, notices, begun, sideVars>>

\* submit processor, lines 47-66 inside the try: the user lookup or
\* enqueueNotify throws; the processor's catch runs.
NotifyFails(e) ==
    /\ ex[e].pc = "notify"
    /\ ex' = [ex EXCEPT ![e].pc = "catch", ![e].cause = "queue"]
    /\ UNCHANGED <<nonce, nonceVars, chain, ledger, reqd, sjob, wd, cjobs, notices, begun, sideVars>>

\* The submit side with the database and the queues failing after a send.
NextFault ==
    \/ \E r \in Reqs : Request(r)
    \/ SubmitStage
    \/ \E e \in Execs : AttachFails(e)
    \/ \E e \in Execs : EnqConfirmFails(e)
    \/ \E e \in Execs : NotifyFails(e)

SpecFault == Init /\ [][NextFault]_vars

\* The process of a submit worker dies while its processor runs: the
\* execution takes no further step, and the job stays active until its
\* lock expires (Stall).
Crash(e) ==
    /\ ex[e].pc \notin {"idle", "dead"}
    /\ Cardinality({d \in Execs : ex[d].pc = "dead"}) < MaxCrashes
    /\ ex' = [ex EXCEPT ![e].pc = "dead"]
    /\ UNCHANGED <<nonce, nonceVars, chain, ledger, reqd, sjob, wd, cjobs, notices, begun, sideVars>>

\* The pipeline with worker crashes: the workers that live and the chain
\* are scheduled fairly, a crash may or may not happen.
NextCrash ==
    \/ NextConfirm
    \/ \E e \in Execs : Crash(e)

SpecCrash == Init /\ [][NextCrash]_vars /\ WF_vars(NextConfirm)

\* The transfers are through: every request was issued, no processor runs
\* and no job waits in either queue.
Quiet ==
    /\ \A r \in Reqs : reqd[r] /\ sjob[r].st \in {"none", "completed", "failed"}
    /\ \A e \in Execs : ex[e].pc = "idle"
    /\ \A j \in DOMAIN cjobs :
        cjobs[j].st \in {"completed", "failed"} /\ ~cjobs[j].expiring

\* The pipeline, and the user's withdrawals once the transfers are through,
\* every part scheduled fairly: a worker that can take a step takes one,
\* the chain includes what was broadcast.
NextWithdraw ==
    \/ NextConfirm
    \/ Quiet /\ Withdrawals

SpecWithdraw == Init /\ [][NextWithdraw]_vars /\ WF_vars(NextWithdraw)

\* ------------------------------------------------- startup: initNonce
\* The relayer account's transactions from before this start: all mined.
Earlier(k) ==
    [i \in 1..k |-> [nonce |-> i - 1, op |-> <<"earlier", i>>, receipt |-> "success"]]

\* The process starts: redis holds the counter of an earlier run or nothing.
InitBoot ==
    /\ nonce \in {Nil} \cup (0..MaxStart)
    /\ \E k \in 0..MaxStart : chain = Earlier(k)
    /\ boot = [pc |-> "count", chainNonce |-> Nil, stored |-> Nil]
    /\ callers = [c \in Callers |-> [pc |-> "idle", n |-> Nil]]
    /\ start = 0
    /\ reclaimLog = NoReclaim
    /\ PipeRest
    /\ SideInit

\* initNonce, line 23: getTransactionCount.
BootCount ==
    /\ boot.pc = "count"
    /\ boot' = [boot EXCEPT !.pc = "get", !.chainNonce = Cardinality(Mined)]
    /\ UNCHANGED <<nonce, callers, start, reclaimLog, pipeVars, sideVars>>

\* initNonce, line 25: redis.get.
BootGet ==
    /\ boot.pc = "get"
    /\ boot' = [boot EXCEPT !.pc = "set", !.stored = nonce]
    /\ UNCHANGED <<nonce, callers, start, reclaimLog, pipeVars, sideVars>>

\* initNonce, lines 28-32: redis.set.
BootSet ==
    /\ boot.pc = "set"
    /\ nonce' = initNonce(boot.chainNonce, boot.stored)
    /\ boot' = [boot EXCEPT !.pc = "done"]
    /\ UNCHANGED <<callers, start, reclaimLog, pipeVars, sideVars>>

\* Startup, then the nonce API in use: main awaits initNonce before it
\* starts the workers.
NextBoot ==
    \/ BootCount
    \/ BootGet
    \/ BootSet
    \/ boot.pc = "done" /\ \E c \in Callers : CallAcquire(c)
    \/ boot.pc = "done" /\ \E c \in Callers : CallReclaim(c)

SpecBoot == InitBoot /\ [][NextBoot]_vars

\* ------------------------------- initNonce and resyncNonce beside workers
\* resyncNonce, lines 86-91: the counter is set to the chain's count.
resyncNonce(chainNonce) ==
    chainNonce

\* A process starts while the workers of another process use the counter:
\* the counter is initialized and not below the chain's count.
InitRace ==
    /\ \E k \in 0..MaxStart :
        /\ chain = Earlier(k)
        /\ nonce \in k..MaxStart
    /\ start = nonce
    /\ boot = [pc |-> "count", chainNonce |-> Nil, stored |-> Nil]
    /\ callers = [c \in Callers |-> [pc |-> "idle", n |-> Nil]]
    /\ reclaimLog = NoReclaim
    /\ PipeRest
    /\ SideInit

\* resyncNonce, line 88: getTransactionCount. The operator runs it after
\* the process has started.
ResyncCount ==
    /\ boot.pc = "done"
    /\ boot' = [boot EXCEPT !.pc = "resyncSet", !.chainNonce = Cardinality(Mined)]
    /\ UNCHANGED <<nonce, callers, start, reclaimLog, pipeVars, sideVars>>

\* resyncNonce, line 89: redis.set.
ResyncSet ==
    /\ boot.pc = "resyncSet"
    /\ nonce' = resyncNonce(boot.chainNonce)
    /\ boot' = [boot EXCEPT !.pc = "resynced"]
    /\ UNCHANGED <<callers, start, reclaimLog, pipeVars, sideVars>>

NextRace ==
    \/ BootCount
    \/ BootGet
    \/ BootSet
    \/ ResyncCount
    \/ ResyncSet
    \/ \E c \in Callers : CallAcquire(c)
    \/ \E c \in Callers : CallReclaim(c)

SpecRace == InitRace /\ [][NextRace]_vars

\* ------------------------------------- withdrawals of several users
\* Users who confirm a withdrawal at about the same time: each webhook
\* request runs executeWithdrawWithPin on its own.
WdUsers == 1..(SubmitConcurrency + 1)

InitCeiling ==
    /\ nonce = 0
    /\ callers = [c \in Callers |-> [pc |-> "idle", n |-> Nil]]
    /\ start = 0
    /\ reclaimLog = NoReclaim
    /\ boot = BootDone
    /\ chain = <<>>
    /\ ledger = [i \in RecIds \cup {W(w) : w \in WdUsers} |-> NoRec]
    /\ reqd = [r \in Reqs |-> FALSE]
    /\ sjob = [r \in Reqs |-> NoJob]
    /\ ex = [e \in Execs |-> IdleEx]
    /\ wd = [w \in WdUsers |-> IdleEx]
    /\ cjobs = <<>>
    /\ notices = {}
    /\ begun = [r \in Reqs |-> <<"none", 0>>]
    /\ SideInit

\* The withdrawals alone, the node accepting every transaction.
NextCeiling ==
    \/ \E w \in WdUsers : WdAcquire(w)
    \/ \E w \in WdUsers : WdSend(w, "ok")
    \/ \E w \in WdUsers : WdRecord(w)

SpecCeiling == InitCeiling /\ [][NextCeiling]_vars

\* ------------------------------------------------------- gas oracle
\* gas.ts addGasBuffer: bigint arithmetic, the division truncates.
addGasBuffer_divideFirst(estimatedGas) ==
    (estimatedGas \div 100) * 120

addGasBuffer(estimatedGas) ==
    (estimatedGas * 120) \div 100

\* The clock advances in steps of half the cache's lifetime.
GasTickMs == GAS_PRICE_CACHE_MS \div 2

\* Gas estimates the node may return.
EstimateValues == (0..MaxGas) \cup {99, 100, 101}

\* getGasPrice, line 189: redis.get(GAS_PRICE_KEY).
GasGetCached(c) ==
    /\ gcall[c].pc = "idle"
    /\ gcall' = [gcall EXCEPT ![c].pc = "gotCached", ![c].cached = gasCache.price]
    /\ UNCHANGED <<gasFrame, now, gasCache>>

\* getGasPrice, lines 190-197: redis.get(GAS_PRICE_UPDATED_KEY), then the
\* age test on what the two reads returned.
GasGetUpdated(c) ==
    /\ gcall[c].pc = "gotCached"
    /\ LET cached == gcall[c].cached
           updatedAt == gasCache.updated IN
        IF cached # Nil /\ updatedAt # Nil /\ now - updatedAt < GAS_PRICE_CACHE_MS
        THEN gcall' = [gcall EXCEPT ![c].pc = "estimate", ![c].ret = cached,
                                    ![c].retAt = now]
        ELSE gcall' = [gcall EXCEPT ![c].pc = "fetch"]
    /\ UNCHANGED <<gasFrame, now, gasCache>>

\* getGasPrice, lines 200-201: client.getGasPrice(). A price is named by
\* the time the node gave it.
GasFetch(c) ==
    /\ gcall[c].pc = "fetch"
    /\ gcall' = [gcall EXCEPT ![c].pc = "setPrice", ![c].fresh = now]
    /\ UNCHANGED <<gasFrame, now, gasCache>>

\* getGasPrice, line 204: redis.set(GAS_PRICE_KEY).
GasSetPrice(c) ==
    /\ gcall[c].pc = "setPrice"
    /\ gasCache' = [gasCache EXCEPT !.price = gcall[c].fresh]
    /\ gcall' = [gcall EXCEPT ![c].pc = "setUpdated"]
    /\ UNCHANGED <<gasFrame, now>>

\* getGasPrice, lines 205-208: redis.set(GAS_PRICE_UPDATED_KEY, Date.now())
\* and the fresh price is returned.
GasSetUpdated(c) ==
    /\ gcall[c].pc = "setUpdated"
    /\ gasCache' = [gasCache EXCEPT !.updated = now]
    /\ gcall' = [gcall EXCEPT ![c].pc = "estimate", ![c].ret = gcall[c].fresh,
                              ![c].retAt = now]
    /\ UNCHANGED <<gasFrame, now>>

\* executePoolTransfer, lines 79-89: estimateGas answers g and the gas
\* limit is addGasBuffer(g).
GasEstimate(c, g) ==
    /\ gcall[c].pc = "estimate"
    /\ gcall' = [gcall EXCEPT ![c] = [IdleGas EXCEPT !.pc = "done", !.est = g,
                                                     !.gas = addGasBuffer(g)]]
    /\ UNCHANGED <<gasFrame, now, gasCache>>

\* The submission is over; the caller is free for the next one.
GasReturn(c) ==
    /\ gcall[c].pc = "done"
    /\ gcall' = [gcall EXCEPT ![c] = IdleGas]
    /\ UNCHANGED <<gasFrame, now, gasCache>>

\* A call lasts milliseconds, the clock's step is GasTickMs: no call is
\* between its reads and writes of the cache when the clock steps.
GasTick ==
    /\ now < MaxGasTicks * GasTickMs
    /\ \A c \in GasCallers : gcall[c].pc \in {"idle", "estimate", "done"}
    /\ now' = now + GasTickMs
    /\ UNCHANGED <<gasFrame, gasVars>>

NextGas ==
    \/ \E c \in GasCallers : GasGetCached(c)
    \/ \E c \in GasCallers : GasGetUpdated(c)
    \/ \E c \in GasCallers : GasFetch(c)
    \/ \E c \in GasCallers : GasSetPrice(c)
    \/ \E c \in GasCallers : GasSetUpdated(c)
    \/ \E c \in GasCallers, g \in EstimateValues : GasEstimate(c, g)
    \/ \E c \in GasCallers : GasReturn(c)
    \/ GasTick

SpecGas == Init /\ [][NextGas]_vars

\* ------------------------------------------------------------ verifyPin
\* redis.exists(lockKey): a key set with PX is gone once its time is up.
isLocked(lock, t) ==
    lock # Nil /\ t < lock

\* The attempts key as redis holds it at time t.
liveAttempts(A, t) ==
    IF A.exp # Nil /\ t >= A.exp THEN NoAttempts ELSE A

\* redis.incr(attemptsKey): an absent key counts from 0 and has no expiry.
incrAttempts(A, t) ==
    [liveAttempts(A, t) EXCEPT !.n = @ + 1]

\* redis.expire(attemptsKey, ceil(RATE_LIMIT_PIN_LOCKOUT_MS / 1000)): no
\* effect on an absent key.
expireAttempts(A, t) ==
    IF liveAttempts(A, t).n = 0
    THEN NoAttempts
    ELSE [liveAttempts(A, t) EXCEPT
            !.exp = t + ((RATE_LIMIT_PIN_LOCKOUT_MS + 999) \div 1000) * 1000]

\* verifyPin, line 102: attempts >= RATE_LIMIT_PIN_ATTEMPTS.
lockNeeded_after(attempts) ==
    attempts > RATE_LIMIT_PIN_ATTEMPTS

lockNeeded(attempts) ==
    attempts >= RATE_LIMIT_PIN_ATTEMPTS

\* A call lasts milliseconds against the clock's step of one session
\* lifetime: no handler is inside a call when the clock steps.
ClockStep(max) ==
    /\ now < max * SESSION_TTL_MS
    /\ \A h \in Handlers : hd[h].pc = "idle"
    /\ now' = now + SESSION_TTL_MS
    /\ UNCHANGED <<cmdFrame, cmdVars>>

PinTick == ClockStep(MaxPinTicks)

CmdTick == ClockStep(MaxCmdTicks)

\* A handler is free when every handler before it is busy: the handlers
\* are alike.
Free(h) ==
    /\ hd[h].pc = "idle"
    /\ \A k \in Handlers : k < h => hd[k].pc # "idle"
    /\ msgs < NMsgs

\* verifyPin called on its own with the user's PIN or another one.
PinCall(h, p) ==
    /\ Free(h)
    /\ msgs' = msgs + 1
    /\ hd' = [hd EXCEPT ![h] = [IdleHd EXCEPT !.pc = "vLock", !.kind = "verify",
                                              !.msg = [NoMsg EXCEPT !.pin = p]]]
    /\ UNCHANGED <<cmdFrame, now, session, pinAttempts, pinLock, acts, pinGhost>>

\* verifyPin, lines 83-89: the lock check, then bcrypt.compare.
VerifyLock(h) ==
    /\ hd[h].pc = "vLock"
    /\ hd' = [hd EXCEPT ![h].lockedAtStart = isLocked(pinLock, now),
                        ![h].res = IF isLocked(pinLock, now) THEN "locked" ELSE "none",
                        ![h].pc = IF isLocked(pinLock, now) THEN "verified"
                                  ELSE IF hd[h].msg.pin = "right" THEN "vDel"
                                  ELSE "vIncr"]
    /\ UNCHANGED <<cmdFrame, now, session, pinAttempts, pinLock, acts, pinGhost, msgs>>

\* verifyPin, lines 91-95: the PIN is right, the attempts key is deleted.
VerifyDel(h) ==
    /\ hd[h].pc = "vDel"
    /\ pinAttempts' = NoAttempts
    /\ pinGhost' = [pinGhost EXCEPT !.streak0 = 0, !.streak = 0]
    /\ hd' = [hd EXCEPT ![h].pc = "verified", ![h].res = "valid"]
    /\ UNCHANGED <<cmdFrame, now, session, pinLock, acts, msgs>>

\* verifyPin, lines 98-99: redis.incr. The ghost counts the wrong attempt
\* twice: in a row since the last right one (streak0), and in a row with
\* less than a lockout period between one and the next (streak); the
\* third of a row is when the lock falls due.
VerifyIncr(h) ==
    /\ hd[h].pc = "vIncr"
    /\ pinAttempts' = incrAttempts(pinAttempts, now)
    /\ hd' = [hd EXCEPT ![h].pc = "vExpire", ![h].attempts = pinAttempts'.n]
    /\ LET s0 == pinGhost.streak0 + 1
           inRow == pinGhost.lastWrong # Nil
                    /\ now - pinGhost.lastWrong < RATE_LIMIT_PIN_LOCKOUT_MS
           s1 == (IF inRow THEN pinGhost.streak ELSE 0) + 1 IN
        pinGhost' = [streak0 |-> IF s0 >= 3 THEN 0 ELSE s0,
                     lockDue0 |-> IF s0 >= 3 THEN now + RATE_LIMIT_PIN_LOCKOUT_MS
                                  ELSE pinGhost.lockDue0,
                     streak |-> IF s1 >= 3 THEN 0 ELSE s1,
                     lockDue |-> IF s1 >= 3 THEN now + RATE_LIMIT_PIN_LOCKOUT_MS
                                 ELSE pinGhost.lockDue,
                     lastWrong |-> now]
    /\ UNCHANGED <<cmdFrame, now, session, pinLock, acts, msgs>>

\* verifyPin, lines 100-113: redis.expire, then the threshold test.
VerifyExpire(h) ==
    /\ hd[h].pc = "vExpire"
    /\ pinAttempts' = expireAttempts(pinAttempts, now)
    /\ IF lockNeeded(hd[h].attempts)
       THEN hd' = [hd EXCEPT ![h].pc = "vSetLock"]
       ELSE hd' = [hd EXCEPT ![h].pc = "verified", ![h].res = "invalid"]
    /\ UNCHANGED <<cmdFrame, now, session, pinLock, acts, pinGhost, msgs>>

\* verifyPin, line 104: redis.set(lockKey, "1", "PX", RATE_LIMIT_PIN_LOCKOUT_MS).
VerifySetLock(h) ==
    /\ hd[h].pc = "vSetLock"
    /\ pinLock' = now + RATE_LIMIT_PIN_LOCKOUT_MS
    /\ hd' = [hd EXCEPT ![h].pc = "vDelAttempts"]
    /\ UNCHANGED <<cmdFrame, now, session, pinAttempts, acts, pinGhost, msgs>>

\* verifyPin, lines 105-106: redis.del(attemptsKey); locked is returned.
VerifyDelAttempts(h) ==
    /\ hd[h].pc = "vDelAttempts"
    /\ pinAttempts' = NoAttempts
    /\ hd' = [hd EXCEPT ![h].pc = "verified", ![h].res = "locked"]
    /\ UNCHANGED <<cmdFrame, now, session, pinLock, acts, pinGhost, msgs>>

\* The bare call returns.
PinReturn(h) ==
    /\ hd[h].pc = "verified"
    /\ hd[h].kind = "verify"
    /\ hd' = [hd EXCEPT ![h] = IdleHd]
    /\ UNCHANGED <<cmdFrame, now, session, pinAttempts, pinLock, acts, pinGhost, msgs>>

VerifySteps ==
    \/ \E h \in Handlers : VerifyLock(h)
    \/ \E h \in Handlers : VerifyDel(h)
    \/ \E h \in Handlers : VerifyIncr(h)
    \/ \E h \in Handlers : VerifyExpire(h)
    \/ \E h \in Handlers : VerifySetLock(h)
    \/ \E h \in Handlers : VerifyDelAttempts(h)

NextPin ==
    \/ \E h \in Handlers, p \in {"right", "wrong"} : PinCall(h, p)
    \/ VerifySteps
    \/ \E h \in Handlers : PinReturn(h)
    \/ PinTick

SpecPin == Init /\ [][NextPin]_vars

\* -------------------------------------------------------- command layer
\* What the user may type: a send or a withdraw with an amount, or four
\* digits that are the PIN or are not.
Messages ==
    {[kind |-> "send", amount |-> a, pin |-> "none"] : a \in Amounts}
    \cup {[kind |-> "withdraw", amount |-> 20, pin |-> "none"]}
    \cup {[kind |-> "pin", amount |-> 0, pin |-> p] : p \in {"right", "wrong"}}

\* getSession: the key is absent, or its time is up (redis PX and the
\* expiresAt test), or the stored session is returned.
getSession(S, t) ==
    IF S.step = "idle" \/ t >= S.expiresAt THEN IdleSession ELSE S

\* setSession(userId, "awaiting_pin_for_send", {pendingCommand}).
setSession(cmd, t) ==
    [step |-> "awaiting_pin_for_send", pendingCommand |-> cmd,
     expiresAt |-> t + SESSION_TTL_MS]

\* confirmSendWithPin, line 303, and executeWithdrawWithPin, line 164: the
\* handler goes on only when verifyPin answered valid.
pinAccepted_unlessLocked(res) ==
    res # "locked"

pinAccepted(res) ==
    res = "valid"

\* buildIdempotencyKey: the template string that is hashed; keccak256 is
\* taken to be free of collisions, so the string stands for its hash.
buildIdempotencyKey_rounded(senderUserId, recipientUserId, amountWei, t, windowMs) ==
    LET window == (t + windowMs \div 2) \div windowMs IN
    senderUserId \o ":" \o recipientUserId \o ":" \o amountWei \o ":" \o ToString(window)

buildIdempotencyKey(senderUserId, recipientUserId, amountWei, t, windowMs) ==
    LET window == t \div windowMs IN
    senderUserId \o ":" \o recipientUserId \o ":" \o amountWei \o ":" \o ToString(window)

\* enqueueTxSubmit with jobId = idempotencyKey: no job is added while the
\* queue holds one of that id.
enqueueJob(A, e) ==
    IF \E i \in DOMAIN A : A[i].type = "transfer" /\ A[i].key = e.key
    THEN A
    ELSE Append(A, e)

\* routeCommand, lines 23-147: a message of the user arrives; the session
\* decides between the PIN step and the parsed command.
routeCommand(h, m) ==
    /\ Free(h)
    /\ msgs' = msgs + 1
    /\ LET s == getSession(session, now)
           H == [IdleHd EXCEPT !.msg = m] IN
        /\ session' = s
        /\ IF s.step = "awaiting_pin_for_send"
           THEN IF m.kind = "pin"
                THEN hd' = [hd EXCEPT ![h] = [H EXCEPT !.pc = "pinSession",
                              !.kind = IF s.pendingCommand.type = "withdraw"
                                       THEN "withdraw" ELSE "send"]]
                ELSE hd' = hd
           ELSE IF m.kind = "send"
                THEN hd' = [hd EXCEPT ![h] = [H EXCEPT !.pc = "handleSend"]]
                ELSE IF m.kind = "withdraw"
                     THEN hd' = [hd EXCEPT ![h] = [H EXCEPT !.pc = "handleWithdraw"]]
                     ELSE hd' = hd
    /\ UNCHANGED <<cmdFrame, now, pinAttempts, pinLock, acts, pinGhost>>

\* handleSend, lines 181-265: the pool balance must cover the amount, then
\* the command is stored and the PIN is asked for.
handleSend(h, bal) ==
    /\ hd[h].pc = "handleSend"
    /\ session' = IF bal < hd[h].msg.amount
                  THEN session
                  ELSE setSession([type |-> "send", amount |-> hd[h].msg.amount], now)
    /\ hd' = [hd EXCEPT ![h] = IdleHd]
    /\ UNCHANGED <<cmdFrame, now, pinAttempts, pinLock, acts, pinGhost, msgs>>

\* handleWithdraw, history.ts lines 89-127.
handleWithdraw(h, bal) ==
    /\ hd[h].pc = "handleWithdraw"
    /\ session' = IF bal < hd[h].msg.amount
                  THEN session
                  ELSE setSession([type |-> "withdraw", amount |-> hd[h].msg.amount], now)
    /\ hd' = [hd EXCEPT ![h] = IdleHd]
    /\ UNCHANGED <<cmdFrame, now, pinAttempts, pinLock, acts, pinGhost, msgs>>

\* confirmSendWithPin, lines 276-281, and executeWithdrawWithPin, lines
\* 136-145: the session is read again; without a pending command (of type
\* withdraw, for the withdrawal) it is cleared and the handler returns.
PinSession(h) ==
    /\ hd[h].pc = "pinSession"
    /\ LET s == getSession(session, now)
           reject == \/ s.step # "awaiting_pin_for_send"
                     \/ s.pendingCommand = NoCmd
                     \/ hd[h].kind = "withdraw" /\ s.pendingCommand.type # "withdraw" IN
        IF reject
        THEN /\ session' = IdleSession
             /\ hd' = [hd EXCEPT ![h] = IdleHd]
        ELSE /\ session' = s
             /\ hd' = [hd EXCEPT ![h].pc = "vLock", ![h].cmd = s.pendingCommand]
    /\ UNCHANGED <<cmdFrame, now, pinAttempts, pinLock, acts, pinGhost, msgs>>

\* confirmSendWithPin, lines 296-310, and executeWithdrawWithPin, lines
\* 159-171: locked clears the session; a wrong PIN keeps it; a valid PIN
\* clears it and the command is executed.
AfterVerify(h) ==
    /\ hd[h].pc = "verified"
    /\ hd[h].kind \in {"send", "withdraw"}
    /\ IF hd[h].res = "locked"
       THEN /\ session' = IdleSession
            /\ hd' = [hd EXCEPT ![h] = IdleHd]
       ELSE IF ~pinAccepted(hd[h].res)
            THEN /\ session' = session
                 /\ hd' = [hd EXCEPT ![h] = IdleHd]
            ELSE /\ session' = IdleSession
                 /\ hd' = [hd EXCEPT ![h].pc = "execute"]
    /\ UNCHANGED <<cmdFrame, now, pinAttempts, pinLock, acts, pinGhost, msgs>>

\* confirmSendWithPin, lines 312-342: a command without a recipient (the
\* pending command was a withdrawal) ends here; otherwise the submit job
\* is enqueued under its idempotency key.
EnqueueSubmit(h) ==
    /\ hd[h].pc = "execute"
    /\ hd[h].kind = "send"
    /\ acts' = IF hd[h].cmd.type # "send"
               THEN acts
               ELSE enqueueJob(acts, [type |-> "transfer", amount |-> hd[h].cmd.amount,
                                      at |-> now,
                                      key |-> buildIdempotencyKey("u1", "u12",
                                                  ToString(hd[h].cmd.amount), now,
                                                  IdempotencyWindowMs),
                                      cmd |-> hd[h].cmd, pin |-> hd[h].msg.pin,
                                      lockedAtStart |-> hd[h].lockedAtStart])
    /\ hd' = [hd EXCEPT ![h] = IdleHd]
    /\ UNCHANGED <<cmdFrame, now, session, pinAttempts, pinLock, pinGhost, msgs>>

\* executeWithdrawWithPin, lines 173-178: executePoolWithdraw is called.
PoolWithdraw(h) ==
    /\ hd[h].pc = "execute"
    /\ hd[h].kind = "withdraw"
    /\ acts' = Append(acts, [type |-> "withdraw", amount |-> hd[h].cmd.amount,
                             at |-> now, key |-> <<>>,
                             cmd |-> hd[h].cmd, pin |-> hd[h].msg.pin,
                             lockedAtStart |-> hd[h].lockedAtStart])
    /\ hd' = [hd EXCEPT ![h] = IdleHd]
    /\ UNCHANGED <<cmdFrame, now, session, pinAttempts, pinLock, pinGhost, msgs>>

NextCmd ==
    \/ \E h \in Handlers, m \in Messages : routeCommand(h, m)
    \/ \E h \in Handlers, bal \in Balances : handleSend(h, bal)
    \/ \E h \in Handlers, bal \in Balances : handleWithdraw(h, bal)
    \/ \E h \in Handlers : PinSession(h)
    \/ VerifySteps
    \/ \E h \in Handlers : AfterVerify(h)
    \/ \E h \in Handlers : EnqueueSubmit(h)
    \/ \E h \in Handlers : PoolWithdraw(h)
    \/ CmdTick

InitCmd ==
    /\ nonce = 0
    /\ callers = [c \in Callers |-> [pc |-> "idle", n |-> Nil]]
    /\ start = 0
    /\ reclaimLog = NoReclaim
    /\ boot = BootDone
    /\ PipeInit
    /\ now = 0
    /\ GasInit
    /\ PoolInit
    /\ KeyInit
    /\ CmdRest
    /\ \E p \in PinStarts :
        /\ pinAttempts = p.attempts
        /\ pinLock = p.lock
        /\ pinGhost = p.ghost

SpecCmd == InitCmd /\ [][NextCmd]_vars

\* ---------------------------------------------------------- PaymentPool
\* modifier onlyRelayer: the call goes on.
onlyRelayer_nonZero(sender) ==
    sender # Zero

onlyRelayer(sender) ==
    sender = relayer

\* The three tests at the head of transfer, of withdraw and of each item
\* of batchTransfer, in the order of the code.
checks_noZeroAmount(B, from, to, amount) ==
    IF from = Zero \/ to = Zero THEN "ZeroAddress"
    ELSE IF B[from] < amount THEN "InsufficientBalance"
    ELSE "none"

checks(B, from, to, amount) ==
    IF amount = 0 THEN "ZeroAmount"
    ELSE IF from = Zero \/ to = Zero THEN "ZeroAddress"
    ELSE IF B[from] < amount THEN "InsufficientBalance"
    ELSE "none"

\* _balances[from] -= amount; _balances[to] += amount, in checked
\* arithmetic: the second statement reads what the first one wrote.
moveBalance_cached(B, from, to, amount) ==
    IF B[to] + amount > MaxUint
    THEN [err |-> "Panic", balances |-> B]
    ELSE [err |-> "none",
          balances |-> [a \in Addrs |-> IF a = to THEN B[to] + amount
                                        ELSE IF a = from THEN B[from] - amount
                                        ELSE B[a]]]

moveBalance(B, from, to, amount) ==
    LET B1 == [B EXCEPT ![from] = @ - amount] IN
    IF B1[to] + amount > MaxUint
    THEN [err |-> "Panic", balances |-> B]
    ELSE [err |-> "none", balances |-> [B1 EXCEPT ![to] = @ + amount]]

\* deposit(), lines 78-85; receive(), lines 202-207, has the same body.
deposit(P, sender, value) ==
    IF value = 0 THEN [err |-> "ZeroAmount", pool |-> P]
    ELSE IF P.balances[sender] + value > MaxUint \/ P.totalDeposited + value > MaxUint
    THEN [err |-> "Panic", pool |-> P]
    ELSE [err |-> "none",
          pool |-> [P EXCEPT !.balances[sender] = @ + value,
                             !.totalDeposited = @ + value]]

\* depositFor(user), lines 91-99.
depositFor(P, user, value) ==
    IF value = 0 THEN [err |-> "ZeroAmount", pool |-> P]
    ELSE IF user = Zero THEN [err |-> "ZeroAddress", pool |-> P]
    ELSE IF P.balances[user] + value > MaxUint \/ P.totalDeposited + value > MaxUint
    THEN [err |-> "Panic", pool |-> P]
    ELSE [err |-> "none",
          pool |-> [P EXCEPT !.balances[user] = @ + value,
                             !.totalDeposited = @ + value]]

\* The body of transfer, lines 115-122, and of one turn of batchTransfer's
\* loop, lines 142-153.
transferBody(P, from, to, amount) ==
    LET e == checks(P.balances, from, to, amount)
        m == moveBalance(P.balances, from, to, amount) IN
    IF e # "none" THEN [err |-> e, pool |-> P]
    ELSE IF m.err # "none" THEN [err |-> m.err, pool |-> P]
    ELSE [err |-> "none", pool |-> [P EXCEPT !.balances = m.balances]]

\* transfer(from, to, amount, refId), lines 111-123.
transfer(P, sender, from, to, amount) ==
    IF ~onlyRelayer(sender) THEN [err |-> "OnlyRelayer", pool |-> P]
    ELSE transferBody(P, from, to, amount)

\* withdraw, lines 168-178: the modifiers, the tests and the effects that
\* come before the external call.
withdrawEffects_keepsTotal(P, sender, from, to, amount) ==
    LET e == checks(P.balances, from, to, amount) IN
    IF ~onlyRelayer(sender) THEN [err |-> "OnlyRelayer", pool |-> P]
    ELSE IF P.locked THEN [err |-> "Reentrancy", pool |-> P]
    ELSE IF e # "none" THEN [err |-> e, pool |-> P]
    ELSE [err |-> "none",
          pool |-> [P EXCEPT !.locked = TRUE, !.balances[from] = @ - amount]]

withdrawEffects(P, sender, from, to, amount) ==
    LET e == checks(P.balances, from, to, amount) IN
    IF ~onlyRelayer(sender) THEN [err |-> "OnlyRelayer", pool |-> P]
    ELSE IF P.locked THEN [err |-> "Reentrancy", pool |-> P]
    ELSE IF e # "none" THEN [err |-> e, pool |-> P]
    ELSE [err |-> "none",
          pool |-> [P EXCEPT !.locked = TRUE, !.balances[from] = @ - amount,
                             !.totalDeposited = @ - amount]]

\* msg.value is money the sender has: the pool never holds more than the
\* wei that exist.
CanPay(value) ==
    pool.totalDeposited + value <= Supply

\* Who may call the contract now: anyone between transactions; while
\* withdraw is inside its external call, the address being paid, once.
MayCall(sender) ==
    \/ tx.kind = "none"
    \/ tx.kind = "withdraw" /\ sender = tx.to /\ tx.n = 0

\* The frame after a call made from inside withdraw's external call.
Nested == IF tx.kind = "withdraw" THEN [tx EXCEPT !.n = @ + 1] ELSE tx

\* The ghost record of a call that returns now. short: the balance of
\* from was below the amount when the call was made; zero: from or to was
\* address(0).
Returned(fn, sender, from, to, amount, err) ==
    [fn |-> fn, sender |-> sender, amount |-> amount,
     short |-> pool.balances[from] < amount,
     zero |-> (from = Zero \/ to = Zero),
     err |-> err, seq |-> 1 - lastCall.seq]

Deposit(sender, value) ==
    /\ MayCall(sender)
    /\ CanPay(value)
    /\ LET r == deposit(pool, sender, value) IN
        /\ pool' = r.pool
        /\ lastCall' = Returned("deposit", sender, sender, sender, value, r.err)
    /\ tx' = Nested
    /\ UNCHANGED poolFrame

\* depositFor: the sponsor shows only in the event.
DepositFor(user, value) ==
    /\ tx.kind = "none"
    /\ CanPay(value)
    /\ LET r == depositFor(pool, user, value) IN
        /\ pool' = r.pool
        /\ lastCall' = Returned("depositFor", user, user, user, value, r.err)
    /\ UNCHANGED <<poolFrame, tx>>

\* A plain payment to the contract: receive().
Receive(sender, value) ==
    /\ MayCall(sender)
    /\ CanPay(value)
    /\ LET r == deposit(pool, sender, value) IN
        /\ pool' = r.pool
        /\ lastCall' = Returned("receive", sender, sender, sender, value, r.err)
    /\ tx' = Nested
    /\ UNCHANGED poolFrame

Transfer(sender, from, to, amount) ==
    /\ MayCall(sender)
    /\ LET r == transfer(pool, sender, from, to, amount) IN
        /\ pool' = r.pool
        /\ lastCall' = Returned("transfer", sender, from, to, amount, r.err)
    /\ tx' = Nested
    /\ UNCHANGED poolFrame

\* batchTransfer, lines 133-140: the modifier and the length test.
BatchBegin(sender, lengthsAgree) ==
    /\ tx.kind = "none"
    /\ IF ~onlyRelayer(sender)
       THEN /\ lastCall' = Returned("batchTransfer", sender, Zero, Zero, 0, "OnlyRelayer")
            /\ tx' = tx
       ELSE IF ~lengthsAgree
       THEN /\ lastCall' = Returned("batchTransfer", sender, Zero, Zero, 0,
                                    "Array length mismatch")
            /\ tx' = tx
       ELSE /\ tx' = [NoTx EXCEPT !.kind = "batch", !.saved = pool]
            /\ lastCall' = [NoCall EXCEPT !.seq = lastCall.seq]
    /\ UNCHANGED <<poolFrame, pool>>

\* batchTransfer, lines 142-156: one turn of the loop; a revert undoes the
\* turns before it.
BatchItem(from, to, amount) ==
    /\ tx.kind = "batch"
    /\ tx.n < MaxBatch
    /\ LET r == transferBody(pool, from, to, amount) IN
        IF r.err # "none"
        THEN /\ pool' = tx.saved
             /\ tx' = NoTx
             /\ lastCall' = Returned("batchTransfer", relayer, from, to, amount, r.err)
        ELSE /\ pool' = r.pool
             /\ tx' = [tx EXCEPT !.n = @ + 1]
             /\ lastCall' = lastCall
    /\ UNCHANGED poolFrame

\* batchTransfer: the loop is over.
BatchEnd ==
    /\ tx.kind = "batch"
    /\ tx' = NoTx
    /\ lastCall' = Returned("batchTransfer", relayer, Zero, Zero, 0, "none")
    /\ UNCHANGED <<poolFrame, pool>>

\* withdraw, lines 168-178, up to the external call.
WithdrawBegin(sender, from, to, amount) ==
    /\ MayCall(sender)
    /\ LET r == withdrawEffects(pool, sender, from, to, amount) IN
        IF r.err # "none"
        THEN /\ pool' = pool
             /\ tx' = Nested
             /\ lastCall' = Returned("withdraw", sender, from, to, amount, r.err)
        ELSE /\ pool' = r.pool
             /\ tx' = [NoTx EXCEPT !.kind = "withdraw", !.saved = pool, !.from = from,
                                   !.to = to, !.amount = amount]
             /\ lastCall' = [NoCall EXCEPT !.seq = lastCall.seq]
    /\ UNCHANGED poolFrame

\* withdraw, lines 180-183 and the end of nonReentrant: the external call
\* returns; a failure reverts the transaction, calls made from inside it
\* included.
WithdrawEnd(success) ==
    /\ tx.kind = "withdraw"
    /\ pool' = IF success THEN [pool EXCEPT !.locked = FALSE] ELSE tx.saved
    /\ tx' = NoTx
    /\ lastCall' = [Returned("withdraw", relayer, tx.from, tx.to, tx.amount,
                             IF success THEN "none" ELSE "TransferFailed")
                        EXCEPT !.short = FALSE]
    /\ UNCHANGED poolFrame

NextPool ==
    \/ \E sender \in Users, value \in Values : Deposit(sender, value)
    \/ \E user \in Addrs, value \in Values : DepositFor(user, value)
    \/ \E sender \in Users, value \in Values : Receive(sender, value)
    \/ \E sender \in Accounts, from \in Addrs, to \in Addrs, amount \in Values :
            Transfer(sender, from, to, amount)
    \/ \E sender \in Accounts, lengthsAgree \in BOOLEAN : BatchBegin(sender, lengthsAgree)
    \/ \E from \in Addrs, to \in Addrs, amount \in Values : BatchItem(from, to, amount)
    \/ BatchEnd
    \/ \E sender \in Accounts, from \in Addrs, to \in Addrs, amount \in Values :
            WithdrawBegin(sender, from, to, amount)
    \/ \E success \in BOOLEAN : WithdrawEnd(success)

SpecPool == Init /\ [][NextPool]_vars

\* ------------------------------------------------------ idempotency key
\* The instants the clock visits: the first, second and last millisecond
\* of each bucket.
KeyTimes ==
    UNION {{b * IdempotencyWindowMs, b * IdempotencyWindowMs + 1,
            (b + 1) * IdempotencyWindowMs - 1} : b \in 0..MaxKeyBuckets}

KeyTick ==
    /\ \E t \in KeyTimes :
        /\ t > now
        /\ \A u \in KeyTimes : u > now => t <= u
        /\ now' = t
    /\ UNCHANGED <<keyFrame, kcall>>

\* confirmSendWithPin, line 330: one call with the default window.
KeyCall(i) ==
    /\ kcall[i].at = Nil
    /\ \A j \in KeyCalls : j < i => kcall[j].at # Nil
    /\ kcall' = [kcall EXCEPT ![i].at = now,
                              ![i].key = buildIdempotencyKey(kcall[i].sender,
                                            kcall[i].recipient, kcall[i].amount,
                                            now, IdempotencyWindowMs)]
    /\ UNCHANGED <<keyFrame, now>>

NextKey ==
    \/ KeyTick
    \/ \E i \in KeyCalls : KeyCall(i)

InitKey ==
    /\ nonce = 0
    /\ callers = [c \in Callers |-> [pc |-> "idle", n |-> Nil]]
    /\ start = 0
    /\ reclaimLog = NoReclaim
    /\ boot = BootDone
    /\ PipeInit
    /\ now = 0
    /\ GasInit
    /\ CmdInit
    /\ PoolInit
    /\ kcall \in [KeyCalls -> KeyInputs]

SpecKey == InitKey /\ [][NextKey]_vars

\* ------------------------------------------------------------- claims
Holding == {c \in Callers : callers[c].pc = "holding"}

\* C1: N concurrent acquireNonce calls with no reclaim in between return
\* exactly start .. start+N-1, without repeats or gaps, and leave the
\* counter at start+N, whatever the order of the callers.
C1_NonceUniqueness ==
    reclaimLog = NoReclaim =>
        LET got == {callers[c].n : c \in Holding} IN
        /\ got = start .. (start + Cardinality(Holding) - 1)
        /\ Cardinality(got) = Cardinality(Holding)
        /\ nonce = start + Cardinality(Holding)

C1_Witness ==
    /\ reclaimLog = NoReclaim
    /\ Holding = Callers
    /\ nonce = start + NCallers

\* C4: reclaimNonce(n) decrements the counter exactly when the counter is
\* n + 1 and leaves it unchanged otherwise; so after acquire -> k and
\* acquire -> k+1, reclaimNonce(k) is refused with the counter still k + 2.
C4_ReclaimOnlyLatest ==
    [][\A c \in Callers :
        (callers[c].pc = "holding" /\ callers'[c].pc = "released") =>
            IF nonce = callers[c].n + 1
            THEN nonce' = nonce - 1 /\ reclaimLog'[4] = 1
            ELSE nonce' = nonce /\ reclaimLog'[4] = 0]_vars

C4_Witness ==
    /\ reclaimLog[4] = 0
    /\ reclaimLog[2] = reclaimLog[1] + 2
    /\ reclaimLog[3] = reclaimLog[1] + 2
    /\ nonce = reclaimLog[1] + 2

\* Submissions that hold nonce n: in flight (allocated, the gateway has not
\* answered) or broadcast.
Holders(n) ==
    Cardinality({e \in Execs : ex[e].pc = "send" /\ ex[e].n = n})
    + Cardinality({w \in Wds : wd[w].pc = "send" /\ wd[w].n = n})
    + Cardinality({i \in DOMAIN chain : chain[i].nonce = n})

\* C2: no nonce is held by two submissions that are in flight or broadcast.
C2_NoSharedNonce ==
    \A n \in 0..nonce : Holders(n) <= 1

\* C3: a submission whose sendTransaction threw after the gateway recorded
\* the transaction does not reclaim: its catch leaves the counter as it was.
C3_NoReclaimAfterAmbiguous ==
    [][/\ \A e \in Execs :
            (ex[e].pc = "reclaim" /\ ex[e].cause = "ambiguous"
                /\ ex'[e].pc # "reclaim") => nonce' = nonce
       /\ \A w \in Wds :
            (wd[w].pc = "reclaim" /\ wd[w].cause = "ambiguous"
                /\ wd'[w].pc # "reclaim") => nonce' = nonce]_vars

\* C5: a transfer whose gas estimation threw, with no other allocation since
\* it took nonce n, puts the counter back to n (the next acquireNonce
\* returns n), throws into the worker's catch, and leaves its row failed
\* without a hash.
C5_EstimationFailure ==
    /\ [][\A e \in Execs :
            (ex[e].pc = "reclaim" /\ ex[e].cause = "estimate" /\ ~ex[e].other
                /\ ex'[e].pc # "reclaim") =>
                    (nonce' = ex[e].n /\ acquireNonce(nonce').ret = ex[e].n)]_vars
    /\ [](\A e \in Execs : ex[e].cause = "estimate" =>
            /\ ex[e].pc \in {"reclaim", "markFailed", "catch"}
            /\ ex[e].pc = "catch" =>
                (ledger[T(e[1])].status = "failed" /\ ledger[T(e[1])].txHash = Nil))
    /\ [](\A r \in Reqs : ledger[T(r)].err = "estimate" =>
            (ledger[T(r)].status = "failed" /\ ledger[T(r)].txHash = Nil))

C5_Witness ==
    \E e \in Execs :
        /\ ex[e].cause = "estimate"
        /\ ex[e].pc = "catch"
        /\ nonce = 0
        /\ ledger[T(e[1])].status = "failed"
        /\ \E w \in Wds : wd[w].pc = "failed"

\* C6: two requests with the same idempotency key and different refIds
\* resolve to the same row in the begin part of processTransfer, and the key
\* has at most one row.
C6_IdempotentBegin ==
    /\ \A r, q \in Reqs :
        (r # q /\ begun[r] # <<"none", 0>> /\ begun[q] # <<"none", 0>>) =>
            (begun[r] = begun[q] /\ begun[r] # <<"threw", 0>>)
    /\ Cardinality(findByKey(ledger)) <= 1

TransferBroadcasts == {i \in DOMAIN chain : chain[i].op \in TransferIds}
Settled ==
    /\ \A r \in Reqs : reqd[r] /\ sjob[r].st \in {"none", "completed", "failed"}
    /\ Running = {}

\* C7 as stated: once the duplicate requests are dealt with, exactly one
\* submission has reached the chain gateway.
C7_ExactlyOneSubmission ==
    Settled => Cardinality(TransferBroadcasts) = 1

\* C7 as amended: at most one submission reaches the gateway (none when the
\* submission fails before broadcast), the key has one row at most, and a
\* later request gets no job and no row of its own: it ends in the first
\* request's job.
C7_AtMostOneSubmission ==
    /\ Cardinality(TransferBroadcasts) <= 1
    /\ Cardinality(findByKey(ledger)) <= 1
    /\ \A r \in Reqs : r > 1 =>
        (sjob[r].st = "none" /\ ledger[T(r)].status = "none")
    /\ \A r \in Reqs : (r > 1 /\ reqd[r]) => sjob[1].st # "none"

C7_Witness ==
    /\ \A r \in Reqs : reqd[r]
    /\ sjob[1].st = "completed"
    /\ sjob[1].stalls = 1
    /\ Running = {}
    /\ Cardinality(TransferBroadcasts) = 1
    /\ ledger[T(1)].txHash # Nil

Terminal == {"confirmed", "failed", "expired"}

\* C8: once a row is confirmed, failed or expired, no later step changes
\* its status or its error detail.
C8_MonotonicStatus ==
    [][\A i \in RecIds : ledger[i].status \in Terminal =>
        (ledger'[i].status = ledger[i].status /\ ledger'[i].err = ledger[i].err)]_vars

\* C9: the 20th consecutive confirm attempt without a receipt ends the job
\* and triggers the expiry update; that update sets the row to expired with
\* the timeout detail (not failed); and no row becomes expired unless one
\* of its confirm jobs has failed 20 times.
C9_ConfirmationTimeout ==
    [][/\ \A j \in DOMAIN cjobs :
            /\ (cjobs[j].attemptsMade = ConfirmAttempts - 1
                    /\ cjobs'[j].attemptsMade = ConfirmAttempts) =>
                        (cjobs'[j].expiring /\ cjobs'[j].st = "failed")
            /\ (cjobs[j].expiring /\ ~cjobs'[j].expiring) =>
                    /\ ledger'[cjobs[j].tid].status = "expired"
                    /\ ledger'[cjobs[j].tid].err = "timeout"
       /\ \A i \in RecIds :
            (ledger'[i].status = "expired" /\ ledger[i].status # "expired") =>
                \E j \in DOMAIN cjobs :
                    cjobs[j].tid = i /\ cjobs[j].attemptsMade >= ConfirmAttempts]_vars

C9_Witness ==
    \E j \in DOMAIN cjobs :
        /\ cjobs[j].attemptsMade = ConfirmAttempts
        /\ cjobs[j].st = "failed"
        /\ ~cjobs[j].expiring
        /\ ledger[cjobs[j].tid].status = "expired"
        /\ ledger[cjobs[j].tid].err = "timeout"

\* C10: a submission that failed after the gateway may have broadcast it
\* leaves its row pending at submit time.
C10_AmbiguousStaysPending ==
    \A e \in Execs : ex[e].cause = "ambiguous" =>
        ledger[T(e[1])].status = "pending"

\* C11: every transaction the relayer has broadcast (transfer or withdraw)
\* already has a ledger row for its operation: the row is there at the
\* moment of broadcast and in every state after it.
C11_LedgerBeforeBroadcast ==
    \A i \in DOMAIN chain : ledger[chain[i].op].status # "none"

\* C12: when allocation, estimation and send all succeeded, storing the
\* hash leaves the row pending with the hash the gateway returned for this
\* transfer; and a confirm attempt that reads a success receipt for the
\* job's hash reports confirmed and leaves the row confirmed.
C12_HappyPath ==
    [][/\ \A e \in Execs :
            (ex[e].pc = "sent" /\ ex'[e].pc = "enqConfirm") =>
                /\ ledger'[T(e[1])].status = "pending"
                /\ ledger'[T(e[1])].txHash = ex[e].hash
                /\ chain[ex[e].hash].op = T(e[1])
       /\ \A j \in DOMAIN cjobs :
            (cjobs[j].st = "wait" /\ cjobs'[j] # cjobs[j]
                /\ chain[cjobs[j].hash].receipt = "success") =>
                    /\ ledger'[cjobs[j].tid].status = "confirmed"
                    /\ cjobs'[j].status = "confirmed"]_vars

C12_Witness ==
    \E r \in Reqs :
        /\ ledger[T(r)].status = "confirmed"
        /\ ledger[T(r)].txHash # Nil
        /\ chain[ledger[T(r)].txHash].receipt = "success"
        /\ chain[ledger[T(r)].txHash].op = T(r)
        /\ \E j \in DOMAIN cjobs : cjobs[j].tid = T(r) /\ cjobs[j].st = "completed"

\* C13: the redis.set that ends initNonce leaves the counter at
\* max(on-chain count, persisted value) when a value was persisted and at
\* the on-chain count otherwise; so the counter is then not below the
\* on-chain count.
C13_NonceInitialization ==
    [][(boot.pc = "set" /\ boot'.pc = "done") =>
        /\ nonce' = IF nonce # Nil THEN Max(Cardinality(Mined), nonce)
                                   ELSE Cardinality(Mined)
        /\ nonce' >= Cardinality(Mined)]_vars

C13_Witness ==
    /\ boot.pc = "done"
    /\ boot.stored # Nil
    /\ boot.stored > boot.chainNonce
    /\ boot.chainNonce = Cardinality(Mined)
    /\ nonce = boot.stored
    /\ \A c \in Callers : callers[c].pc = "idle"

\* Causes of a submission failing before anything was broadcast.
PreBroadcast == {"estimate", "send", "rpc"}

\* C14: a submission that failed before broadcast has its row failed by the
\* time the error reaches the worker, and from then on no delivery of the
\* job (retry or redelivery) allocates a nonce or broadcasts for that
\* transfer: the row stays failed without hash and nothing of it is on chain.
C14_PreBroadcastFailureTerminal ==
    /\ \A e \in Execs :
        (ex[e].pc = "catch" /\ ex[e].cause \in PreBroadcast) =>
            ledger[T(e[1])].status = "failed"
    /\ \A r \in Reqs :
        ledger[T(r)].err \in PreBroadcast =>
            /\ ledger[T(r)].status = "failed"
            /\ ledger[T(r)].txHash = Nil
            /\ \A e \in Execs : e[1] = r =>
                    ex[e].pc \notin {"acquire", "send", "sent", "reclaim", "markFailed"}
            /\ \A i \in DOMAIN chain : chain[i].op # T(r)

C14_Witness ==
    \E r \in Reqs :
        /\ ledger[T(r)].err \in PreBroadcast
        /\ sjob[r].st = "completed"
        /\ sjob[r].attemptsMade = 1
        /\ \A e \in Execs : ex[e].pc = "idle"
        /\ \A i \in DOMAIN chain : chain[i].op # T(r)

\* C15: a row whose submission met a transient error (a call to the node
\* timing out) is in a terminal status only when its submit job has used up
\* its attempts.
C15_TransientRetried ==
    \A r \in Reqs :
        (ledger[T(r)].status \in Terminal /\ ledger[T(r)].err = "rpc") =>
            (sjob[r].st = "failed" /\ sjob[r].attemptsMade >= SubmitAttempts)

\* C16: once a row has a hash, no step replaces it: the hash a row holds
\* is the one it keeps, through retries and redeliveries of the submit job.
C16_HashAttachedOnce ==
    [][\A i \in RecIds :
        ledger[i].txHash # Nil => ledger'[i].txHash = ledger[i].txHash]_vars

C16_Witness ==
    \E e \in Execs :
        /\ e[2] = 1
        /\ ex[e].pc = "enqConfirm"
        /\ ledger[T(e[1])].txHash # Nil
        /\ ex[e].hash = ledger[T(e[1])].txHash
        /\ Cardinality(TransferBroadcasts) = 1

C18_ReceiptClassification ==
    [][\A j \in DOMAIN cjobs :
        (cjobs[j].st = "wait" /\ cjobs'[j] # cjobs[j]) =>
            LET rc == chain[cjobs[j].hash].receipt
                i == cjobs[j].tid IN
            /\ rc = "success" =>
                    /\ cjobs'[j].status = "confirmed"
                    /\ ledger'[i].status = "confirmed"
            /\ rc = "reverted" =>
                    /\ cjobs'[j].status = "failed"
                    /\ ledger'[i].status = "failed"
                    /\ ledger'[i].err = "reverted"
            /\ rc = "absent" =>
                    /\ cjobs'[j].status = "pending"
                    /\ cjobs'[j].attemptsMade = cjobs[j].attemptsMade + 1
                    /\ ledger'[i] = ledger[i]]_vars

C18_Witness ==
    \E j \in DOMAIN cjobs :
        /\ cjobs[j].st = "completed"
        /\ cjobs[j].status = "failed"
        /\ cjobs[j].attemptsMade > 0
        /\ ledger[cjobs[j].tid].status = "failed"
        /\ ledger[cjobs[j].tid].err = "reverted"
        /\ <<cjobs[j].tid[2], "failed", "sender">> \in notices

Admitted == {r \in Reqs : sjob[r].st # "none"}

\* C19: of the submit jobs enqueued with one idempotency key at most one is
\* admitted to the submit queue, and the worker only ever processes that
\* one: every execution of the processor belongs to the admitted job.
C19_QueueAdmissionDedup ==
    /\ Cardinality(Admitted) <= 1
    /\ \A e \in Running : e[1] \in Admitted
    /\ \A r \in Reqs : begun[r] # <<"none", 0>> => r \in Admitted

C19_Witness ==
    /\ \A r \in Reqs : reqd[r]
    /\ Cardinality(Admitted) = 1
    /\ \E e \in Running : ex[e].pc = "send"

\* Submissions in flight: a nonce is allocated and the gateway has not
\* answered yet.
InFlight ==
    Cardinality({e \in Execs : ex[e].pc = "send"})
    + Cardinality({w \in DOMAIN wd : wd[w].pc = "send"})

\* C20: the submissions in flight against the chain gateway, transfers and
\* withdrawals together, never exceed the submit worker's concurrency.
C20_ConcurrencyCeiling ==
    InFlight <= SubmitConcurrency

\* C21: a price that getGasPrice returns from the cache was given by the
\* node at most GAS_PRICE_CACHE_MS before the moment it is returned.
C21_GasPriceFresh ==
    \A c \in GasCallers :
        (gcall[c].ret # Nil /\ gcall[c].fresh = Nil) =>
            gcall[c].retAt - gcall[c].ret <= GAS_PRICE_CACHE_MS

\* C22: the gas limit is floor(g * 120 / 100): the largest integer r with
\* 100 r <= 120 g; it is 120 for g = 100 and 1 for g = 1, and never below g.
C22_GasBuffer ==
    \A c \in GasCallers :
        gcall[c].pc = "done" =>
            LET g == gcall[c].est
                r == gcall[c].gas IN
            /\ 100 * r <= 120 * g
            /\ 120 * g < 100 * (r + 1)
            /\ r >= g
            /\ g = 100 => r = 120
            /\ g = 1 => r = 1

C22_Witness ==
    /\ gcall[1].pc = "done" /\ gcall[1].est = 100 /\ gcall[1].gas = 120
    /\ gcall[2].pc = "done" /\ gcall[2].est = 1 /\ gcall[2].gas = 1

\* C23: once the confirm stage has finalized a record as confirmed, a
\* notification is enqueued for the sender and for the recipient; and an
\* outcome is notified only for a record that is already terminal.
C23_BothPartiesNotified ==
    /\ \A j \in DOMAIN cjobs :
            (cjobs[j].st = "completed" /\ cjobs[j].status = "confirmed") =>
                \A p \in {"sender", "recipient"} :
                    <<cjobs[j].tid[2], cjobs[j].status, p>> \in notices
    /\ \A j \in DOMAIN cjobs :
            (\E p \in {"sender", "recipient"} :
                <<cjobs[j].tid[2], cjobs[j].status, p>> \in notices
                /\ cjobs[j].status \in {"confirmed", "failed"}
                /\ cjobs[j].st = "completed") =>
                    ledger[cjobs[j].tid].status \in {"confirmed", "failed", "expired"}

\* The account is locked right now.
Locked == isLocked(pinLock, now)

\* A handler has counted a wrong attempt that makes the lock due and has
\* not set the lock yet.
LockPending == \E h \in Handlers : hd[h].pc \in {"vExpire", "vSetLock"}

\* C25 as stated: the third wrong attempt since the last right one locks
\* the account for the lockout period; a call that starts while the
\* account is locked answers locked whatever the PIN; a right PIN on an
\* unlocked account leaves the attempts counter at zero.
C25_PinLockout ==
    /\ [](pinGhost.lockDue0 # Nil /\ now < pinGhost.lockDue0 /\ ~LockPending
            => Locked)
    /\ [](\A h \in Handlers :
            hd[h].pc = "verified" /\ hd[h].lockedAtStart => hd[h].res = "locked")
    /\ [][\A h \in Handlers :
            hd[h].pc = "vDel" /\ hd'[h].pc = "verified" =>
                liveAttempts(pinAttempts', now').n = 0]_vars

\* C25, amended: the same, for three wrong attempts each made less than a
\* lockout period after the one before.
C25_PinLockoutInARow ==
    /\ [](pinGhost.lockDue # Nil /\ now < pinGhost.lockDue /\ ~LockPending
            => Locked)
    /\ [](\A h \in Handlers :
            hd[h].pc = "verified" /\ hd[h].lockedAtStart => hd[h].res = "locked")
    /\ [][\A h \in Handlers :
            hd[h].pc = "vDel" /\ hd'[h].pc = "verified" =>
                liveAttempts(pinAttempts', now').n = 0]_vars

\* A right PIN was answered locked on an account that three wrong attempts
\* in a row had locked.
C25_Witness ==
    /\ Locked
    /\ pinGhost.lockDue # Nil /\ now < pinGhost.lockDue
    /\ \E h \in Handlers :
        /\ hd[h].pc = "verified"
        /\ hd[h].msg.pin = "right"
        /\ hd[h].lockedAtStart
        /\ hd[h].res = "locked"

\* C24: every submit job enqueued and every withdrawal sent comes from a
\* handler that found the session awaiting the PIN with that command
\* pending and whose PIN was the right one on an unlocked account.
C24_PinGate ==
    \A i \in DOMAIN acts :
        /\ acts[i].pin = "right"
        /\ ~acts[i].lockedAtStart
        /\ acts[i].cmd.type = (IF acts[i].type = "transfer" THEN "send" ELSE "withdraw")
        /\ acts[i].cmd.amount = acts[i].amount

\* A transfer was enqueued and a withdrawal sent, and a handler whose PIN
\* was wrong is about to return.
C24_Witness ==
    /\ \E i \in DOMAIN acts : acts[i].type = "transfer"
    /\ \E h \in Handlers :
        /\ hd[h].pc = "verified"
        /\ hd[h].kind = "send"
        /\ hd[h].res = "invalid"

RECURSIVE Volume(_)
\* The amounts of the transfers enqueued, added up.
Volume(A) ==
    IF A = <<>> THEN 0
    ELSE (IF Head(A).type = "transfer" THEN Head(A).amount ELSE 0) + Volume(Tail(A))

\* C26: the transfers enqueued for the user (all within one day) add up
\* to at most RATE_LIMIT_DAILY_VOLUME_MON.
C26_DailyVolumeCap ==
    Volume(acts) <= RATE_LIMIT_DAILY_VOLUME_MON

RECURSIVE SumOver(_, _)
\* The balances of the accounts in S, added up.
SumOver(B, S) ==
    IF S = {} THEN 0
    ELSE LET a == CHOOSE x \in S : TRUE IN B[a] + SumOver(B, S \ {a})

SumBalances(P) == SumOver(P.balances, Addrs)

\* C28: totalDeposited is the sum of the pool balances, whatever calls
\* were made and also inside a call.
C28_TotalIsSum ==
    pool.totalDeposited = SumBalances(pool)

\* A withdrawal has paid out after deposits and a transfer, and money is
\* left in two accounts.
C28_Witness ==
    /\ lastCall.fn = "withdraw"
    /\ lastCall.err = "none"
    /\ lastCall.amount > 0
    /\ pool.balances["alice"] > 0
    /\ pool.balances["bob"] > 0

\* A call to the contract has just returned.
CallReturned == lastCall'.seq # lastCall.seq

\* C29: a transfer, batchTransfer or withdraw whose caller is not the
\* relayer answers OnlyRelayer and leaves the storage as it was.
C29_OnlyRelayer ==
    [][(/\ CallReturned
        /\ lastCall'.fn \in {"transfer", "batchTransfer", "withdraw"}
        /\ lastCall'.sender # relayer)
       => (lastCall'.err = "OnlyRelayer" /\ pool' = pool)]_vars

\* A withdrawal that the balance would have covered was refused to a caller
\* who is not the relayer.
C29_Witness ==
    /\ lastCall.fn = "withdraw"
    /\ lastCall.sender = "alice"
    /\ lastCall.err = "OnlyRelayer"
    /\ lastCall.amount > 0
    /\ ~lastCall.short
    /\ ~lastCall.zero

\* A step of transfer or of batchTransfer: a transfer returns, or a batch
\* begins, takes a turn of its loop, reverts or ends.
TransferStep ==
    \/ CallReturned /\ lastCall'.fn \in {"transfer", "batchTransfer"}
    \/ tx.kind = "batch"
    \/ tx'.kind = "batch"

RelayerCallReturned ==
    /\ CallReturned
    /\ lastCall'.fn \in {"transfer", "withdraw"}
    /\ lastCall'.sender = relayer

\* C30 as stated: a transfer or withdraw by the relayer answers
\* InsufficientBalance when the balance of from is below the amount and
\* ZeroAmount when the amount is 0, changing nothing; no balance is ever
\* negative.
C30_RejectsOverdraft ==
    /\ [](\A a \in Addrs : pool.balances[a] >= 0)
    /\ [][RelayerCallReturned =>
            /\ lastCall'.amount = 0
                => (lastCall'.err = "ZeroAmount" /\ pool' = pool)
            /\ lastCall'.short
                => (lastCall'.err = "InsufficientBalance" /\ pool' = pool)]_vars

\* C30 amended: the same, with InsufficientBalance promised only when both
\* addresses are non-zero; address(0) as from or to answers ZeroAddress
\* whatever the balance, and nothing changes then either.
C30_RejectsOverdraftNonZero ==
    /\ [](\A a \in Addrs : pool.balances[a] >= 0)
    /\ [][RelayerCallReturned =>
            /\ lastCall'.amount = 0
                => (lastCall'.err = "ZeroAmount" /\ pool' = pool)
            /\ (lastCall'.short /\ ~lastCall'.zero)
                => (lastCall'.err = "InsufficientBalance" /\ pool' = pool)
            /\ (lastCall'.short /\ lastCall'.zero)
                => (lastCall'.err = "ZeroAddress" /\ pool' = pool)]_vars

\* The relayer asked for a withdrawal above a balance that is not empty and
\* was refused.
C30_Witness ==
    /\ lastCall.fn = "withdraw"
    /\ lastCall.sender = relayer
    /\ lastCall.short
    /\ ~lastCall.zero
    /\ lastCall.amount = 2
    /\ lastCall.err = "InsufficientBalance"
    /\ pool.totalDeposited > 0

\* The time bucket of a call that was made.
Bucket(i) == kcall[i].at \div IdempotencyWindowMs

SameRequest(i, j) ==
    /\ kcall[i].sender = kcall[j].sender
    /\ kcall[i].recipient = kcall[j].recipient
    /\ kcall[i].amount = kcall[j].amount

\* C31: two calls of buildIdempotencyKey return the same key exactly when
\* sender, recipient, amount and floor(now / windowMs) all agree; so two
\* identical requests on either side of a bucket boundary get different
\* keys.
C31_KeyBucketing ==
    (kcall[1].at # Nil /\ kcall[2].at # Nil) =>
        (kcall[1].key = kcall[2].key <=> (SameRequest(1, 2) /\ Bucket(1) = Bucket(2)))

C31_Witness ==
    /\ SameRequest(1, 2)
    /\ kcall[1].at = IdempotencyWindowMs - 1
    /\ kcall[2].at = IdempotencyWindowMs
    /\ kcall[1].key # kcall[2].key

\* The rows that exist under the requests' idempotency key.
KeyRows == {i \in TransferIds : ledger[i].status # "none"}

\* C32: processTransfer run for a key whose row exists (a retried or
\* redelivered job) returns that row's refId and hash without throwing,
\* without creating or changing a row and without allocating a nonce.
C32_ReplayReturnsRecord ==
    [][\A e \in Execs :
        (ex[e].pc = "find" /\ ex'[e].pc # "find" /\ KeyRows # {}) =>
            /\ begun'[e[1]] \in KeyRows
            /\ ex'[e].hash = ledger[begun'[e[1]]].txHash
            /\ ex'[e].pc \in {"idle", "enqConfirm"}
            /\ ex'[e].cause = "none"
            /\ ledger' = ledger
            /\ nonce' = nonce
            /\ chain' = chain]_vars

\* The job was redelivered after a stall and its second delivery got the
\* row and the hash that the first one had written.
C32_Witness ==
    \E r \in Reqs :
        /\ ex[<<r, 1>>].pc = "enqConfirm"
        /\ begun[r] = T(r)
        /\ ex[<<r, 1>>].hash = ledger[T(r)].txHash
        /\ ledger[T(r)].txHash # Nil
        /\ nonce = 1

\* C33: a confirm attempt that finds no receipt throws, and the queue
\* counts the attempt and keeps the same job for another one until the
\* attempts are used up; the confirm stage adds no job to its queue (only
\* the submit processor does), and no job makes more than ConfirmAttempts
\* attempts.
C33_PendingRetriesSameJob ==
    /\ [](\A j \in DOMAIN cjobs : cjobs[j].attemptsMade <= ConfirmAttempts)
    /\ [][/\ \A j \in DOMAIN cjobs :
                (cjobs[j].st = "wait" /\ cjobs'[j] # cjobs[j]
                    /\ chain[cjobs[j].hash].receipt = "absent") =>
                    /\ cjobs'[j].status = "pending"
                    /\ cjobs'[j].attemptsMade = cjobs[j].attemptsMade + 1
                    /\ cjobs'[j].st = IF cjobs'[j].attemptsMade < ConfirmAttempts
                                      THEN "wait" ELSE "failed"
                    /\ cjobs'[j].tid = cjobs[j].tid
                    /\ cjobs'[j].hash = cjobs[j].hash
                    /\ Len(cjobs') = Len(cjobs)
          /\ (Len(cjobs') # Len(cjobs)) =>
                (\E e \in Execs : ex[e].pc = "enqConfirm" /\ ex'[e].pc = "notify")]_vars

\* One confirm job has polled twice without a receipt and waits for its
\* third attempt; it is still the only job.
C33_Witness ==
    /\ Len(cjobs) = 1
    /\ cjobs[1].st = "wait"
    /\ cjobs[1].attemptsMade = 2
    /\ cjobs[1].status = "pending"
    /\ chain[cjobs[1].hash].receipt = "absent"
    /\ \A e \in Execs : ex[e].pc = "idle"

\* C34: the redis.set of initNonce or resyncNonce, run while workers of
\* another process allocate, never leaves the counter at or below a nonce
\* that is handed out and not reclaimed.
C34_InitNeverRegresses ==
    [][(boot' # boot /\ nonce' # nonce) =>
        \A c \in Callers : callers[c].pc = "holding" => nonce' > callers[c].n]_vars

\* C36: a withdrawal that was broadcast gets a ledger row, and the row
\* eventually reaches a terminal status.
C36_WithdrawalFinality ==
    \A w \in Wds :
        (\E i \in DOMAIN chain : chain[i].op = W(w))
            ~> (ledger[W(w)].status \in Terminal)

\* C35: every transfer whose submit job was admitted eventually has its
\* ledger row in a terminal status, also when a worker dies and the job
\* is redelivered.
C35_TransferFinality ==
    \A r \in Reqs :
        (sjob[r].st # "none") ~> (ledger[T(r)].status \in Terminal)

\* The transactions the gateway accepted for request r's transfer.
BroadcastsOf(r) == {i \in DOMAIN chain : chain[i].op = T(r)}

\* C37: a row that the submit stage marked failed has no transaction at
\* the chain gateway.
C37_FailedMeansNotBroadcast ==
    \A r \in Reqs :
        (ledger[T(r)].status = "failed" /\ ledger[T(r)].err # "reverted") =>
            BroadcastsOf(r) = {}

\* C38: the "Payment failed. Your balance is unchanged." notification is
\* enqueued only for a transfer of which nothing reached the chain gateway.
C38_FailedNoticeMeansNotBroadcast ==
    \A r \in Reqs :
        <<r, "failed", "sender">> \in notices => BroadcastsOf(r) = {}

\* C39: at most one confirm job is enqueued for a transfer, whatever
\* failures, retries and redeliveries its submit job goes through.
C39_OneConfirmJob ==
    \A r \in Reqs : Cardinality({j \in DOMAIN cjobs : cjobs[j].tid = T(r)}) <= 1

\* C40: one pending command gives one action at most. Every pending
\* command takes a message of its own to store it and every action a PIN
\* message of its own, so with one action per command the actions are at
\* most half the messages.
C40_OneActionPerCommand ==
    2 * Len(acts) <= msgs

====
